---- MODULE Spec2Model ----
(***************************************************************************)
(* A model of the nes-emu core: the 6502 interpreter (src/src/cpu.rs), the *)
(* memory bus (src/src/memory.rs) and the PPU register file and clock      *)
(* (src/src/ppu/mod.rs, src/src/ppu.rs).                                   *)
(*                                                                         *)
(* The machine is the Rust ownership tree Cpu { bus: Bus { ppu: Ppu } }.   *)
(* Every method is an operator from a machine record                       *)
(*     [cpu, bus, ppu, fatal, halted, checked, ret, ea, ir]                *)
(* to the machine record after the call; ret carries the call's return     *)
(* value and fatal the panic message once the process has aborted.         *)
(***************************************************************************)
EXTENDS Integers, Sequences, FiniteSets, TLC

VARIABLES
    cpu,      \* Cpu: pc, sp, a, x, y, stat
    bus,      \* Bus: cpu_vram, prg_rom, cycles, frame callbacks made
    ppu,      \* Ppu
    fatal,    \* "" while the process runs, else the panic that ended it
    halted,   \* the run loop has returned
    last,     \* the last call made: its name, arguments and return value
    hist      \* what an observer of the calls has counted so far

vars == <<cpu, bus, ppu, fatal, halted, last, hist>>

(***************************************************************************)
(* Machine integers.                                                       *)
(***************************************************************************)
Byte == 0..255

RECURSIVE BitAnd(_, _)
BitAnd(p, q) ==
    IF p = 0 \/ q = 0 THEN 0
    ELSE (p % 2) * (q % 2) + 2 * BitAnd(p \div 2, q \div 2)

RECURSIVE BitOr(_, _)
BitOr(p, q) ==
    IF p = 0 THEN q
    ELSE IF q = 0 THEN p
    ELSE (IF p % 2 = 1 \/ q % 2 = 1 THEN 1 ELSE 0) + 2 * BitOr(p \div 2, q \div 2)

RECURSIVE BitXor(_, _)
BitXor(p, q) ==
    IF p = 0 THEN q
    ELSE IF q = 0 THEN p
    ELSE ((p + q) % 2) + 2 * BitXor(p \div 2, q \div 2)

\* bit i of v as a boolean
Bit(v, i) == (v \div (2 ^ i)) % 2 = 1

\* u8 / u16 wrapping arithmetic
Wrap8(v) == v % 256
Wrap16(v) == v % 65536

\* a zero-filled array kept as the map of its non-zero cells
ArrGet(arr, i) == IF i \in DOMAIN arr THEN arr[i] ELSE 0

ArrSet(arr, i, v) ==
    IF v = 0 THEN [j \in DOMAIN arr \ {i} |-> arr[j]]
    ELSE [j \in DOMAIN arr \cup {i} |-> IF j = i THEN v ELSE arr[j]]

EmptyArr == [j \in {} |-> 0]

\* Option<u8>
\* The element of a set of one.  Pick({ e : x \in {v} }) is e for x the value
\* of v: the statements of a method, each working on what the one before it
\* left, are written this way and read from the last line up.
Pick(S) == CHOOSE r \in S : TRUE

None == <<>>
Some(v) == <<v>>

\* the process aborts at the first panic; later panics are not reached
Panic(m, msg) == IF m.fatal = "" THEN [m EXCEPT !.fatal = msg] ELSE m

(***************************************************************************)
(* PPU status register (ppu/status.rs): bit 7 in-vblank, bit 6 sprite-zero *)
(* hit, bit 5 sprite overflow.                                             *)
(***************************************************************************)
VBLANK_STARTED == 128
SPRITE_ZERO_HIT == 64

stat_snapshot(s) == s

stat_is_in_vblank(s) == Bit(s, 7)

stat_set_vblank_status(s, on) ==
    IF on THEN BitOr(s, VBLANK_STARTED) ELSE BitAnd(s, 255 - VBLANK_STARTED)

stat_clear_vblank_status(s) == BitAnd(s, 255 - VBLANK_STARTED)

stat_set_sprite_zero_hit(s, on) ==
    IF on THEN BitOr(s, SPRITE_ZERO_HIT) ELSE BitAnd(s, 255 - SPRITE_ZERO_HIT)

(***************************************************************************)
(* PPU scroll register (ppu/scroll.rs): an (x, y) pair behind its own      *)
(* first/second-write latch.                                               *)
(***************************************************************************)
scroll_new == [scroll_x |-> 0, scroll_y |-> 0, latch |-> FALSE]

scroll_write(s, data) ==
    IF ~s.latch THEN [s EXCEPT !.scroll_x = data, !.latch = TRUE]
    ELSE [s EXCEPT !.scroll_y = data, !.latch = FALSE]

scroll_reset_latch(s) == [s EXCEPT !.latch = FALSE]

(***************************************************************************)
(* PPU control register.                                                   *)
(***************************************************************************)
VRAM_ADD_INCREMENT == 4
GENERATE_NMI == 128

ctrl_inc_vram_addr(c) == IF BitAnd(c, VRAM_ADD_INCREMENT) = 0 THEN 1 ELSE 32

ctrl_generate_vbalnk_nmi(c) == BitAnd(c, GENERATE_NMI) # 0

ctrl_update(c, data) == data

(***************************************************************************)
(* PPU address register: two bytes and the hi/lo write latch.              *)
(***************************************************************************)
addr_new == [value0 |-> 0, value1 |-> 0, hi_ptr |-> TRUE]

addr_set(r, data) ==
    [r EXCEPT !.value0 = Wrap8(data \div 256), !.value1 = data % 256]

addr_get(r) == r.value0 * 256 + r.value1

addr_mask(r) ==
    IF addr_get(r) > 16383 THEN addr_set(r, BitAnd(addr_get(r), 16383)) ELSE r

\* AddrRegister::update, were it to keep the address unmasked
addr_update_unmasked(r, data) ==
    LET w == IF r.hi_ptr THEN [r EXCEPT !.value0 = data]
             ELSE [r EXCEPT !.value1 = data]
    IN  [w EXCEPT !.hi_ptr = ~r.hi_ptr]

addr_update(r, data) ==
    LET w == IF r.hi_ptr THEN [r EXCEPT !.value0 = data]
             ELSE [r EXCEPT !.value1 = data]
        k == addr_mask(w)
    IN  [k EXCEPT !.hi_ptr = ~r.hi_ptr]

\* AddrRegister::inc, were it to keep the address unmasked
addr_inc_unmasked(r, by) ==
    LET low == r.value1
        lo2 == Wrap8(r.value1 + by)
    IN  [r EXCEPT !.value1 = lo2,
                  !.value0 = IF low > lo2 THEN Wrap8(r.value0 + 1)
                             ELSE r.value0]

addr_inc(r, by) ==
    LET low == r.value1
        lo2 == Wrap8(r.value1 + by)
        w == [r EXCEPT !.value1 = lo2,
                       !.value0 = IF low > lo2 THEN Wrap8(r.value0 + 1)
                                  ELSE r.value0]
    IN  addr_mask(w)

addr_reset_latch(r) == [r EXCEPT !.hi_ptr = TRUE]

(***************************************************************************)
(* Ppu (ppu/mod.rs).                                                       *)
(***************************************************************************)
Mirrorings == {"Vertical", "Horizontal", "FourScreen"}

ppu_new(chr_rom, chr_len, mirroring) ==
    [chr_rom |-> chr_rom, chr_len |-> chr_len,
     palette_table |-> EmptyArr, vram |-> EmptyArr, oam_data |-> EmptyArr,
     oam_addr |-> 0, mirroring |-> mirroring,
     ctrl |-> 0, mask |-> 0, addr |-> addr_new, stat |-> 0,
     scroll |-> scroll_new, internal_buf |-> 0,
     scanline |-> 0, cycles |-> 0, nmi_interrupt |-> None]

\* Ppu::write_to_ctrl, were it to forget what bit 7 was before the write
write_to_ctrl_level(m, value) ==
    LET c == ctrl_update(m.ppu.ctrl, value)
    IN  IF ctrl_generate_vbalnk_nmi(c) /\ stat_is_in_vblank(m.ppu.stat)
        THEN [m EXCEPT !.ppu.ctrl = c, !.ppu.nmi_interrupt = Some(1)]
        ELSE [m EXCEPT !.ppu.ctrl = c]

write_to_ctrl(m, value) ==
    LET prev_nmi_status == ctrl_generate_vbalnk_nmi(m.ppu.ctrl)
        c == ctrl_update(m.ppu.ctrl, value)
    IN  IF ~prev_nmi_status /\ ctrl_generate_vbalnk_nmi(c)
           /\ stat_is_in_vblank(m.ppu.stat)
        THEN [m EXCEPT !.ppu.ctrl = c, !.ppu.nmi_interrupt = Some(1)]
        ELSE [m EXCEPT !.ppu.ctrl = c]

write_to_mask(m, value) == [m EXCEPT !.ppu.mask = value]

write_to_scroll(m, value) ==
    [m EXCEPT !.ppu.scroll = scroll_write(m.ppu.scroll, value)]

write_to_ppu_addr(m, value) ==
    [m EXCEPT !.ppu.addr = addr_update(m.ppu.addr, value)]

write_to_oam_addr(m, value) == [m EXCEPT !.ppu.oam_addr = value]

write_to_oam_data(m, value) ==
    [m EXCEPT !.ppu.oam_data = ArrSet(m.ppu.oam_data, m.ppu.oam_addr, value),
              !.ppu.oam_addr = Wrap8(m.ppu.oam_addr + 1)]

read_oam_data(m) == [m EXCEPT !.ret = ArrGet(m.ppu.oam_data, m.ppu.oam_addr)]

\* Ppu::read_status, were it to leave the vblank bit alone
read_status_keeping_vblank(m) ==
    LET data == stat_snapshot(m.ppu.stat)
    IN  [m EXCEPT !.ppu.addr = addr_reset_latch(m.ppu.addr),
                  !.ppu.scroll = scroll_reset_latch(m.ppu.scroll),
                  !.ret = data]

read_status(m) ==
    LET data == stat_snapshot(m.ppu.stat)
    IN  [m EXCEPT !.ppu.stat = stat_clear_vblank_status(m.ppu.stat),
                  !.ppu.addr = addr_reset_latch(m.ppu.addr),
                  !.ppu.scroll = scroll_reset_latch(m.ppu.scroll),
                  !.ret = data]

inc_vram_addr(m) ==
    [m EXCEPT !.ppu.addr = addr_inc(m.ppu.addr, ctrl_inc_vram_addr(m.ppu.ctrl))]

\* Ppu::mirror_vram_addr, were the third nametable of a Horizontal cartridge
\* to fold onto the first page as the second does
mirror_vram_addr_folding(mirroring, addr) ==
    Pick({ CASE mirroring = "Vertical" /\ name_table \in {2, 3} -> vram_index - 2048
             [] mirroring = "Horizontal" /\ name_table = 2 -> vram_index - 2048
             [] mirroring = "Horizontal" /\ name_table = 1 -> vram_index - 1024
             [] mirroring = "Horizontal" /\ name_table = 3 -> vram_index - 2048
             [] OTHER -> vram_index
           : vram_index \in {BitAnd(addr, 12287) - 8192},
             name_table \in {(BitAnd(addr, 12287) - 8192) \div 1024} })

\* PPU memory address to VRAM index
mirror_vram_addr(mirroring, addr) ==
    Pick({ CASE mirroring = "Vertical" /\ name_table \in {2, 3} -> vram_index - 2048
             [] mirroring = "Horizontal" /\ name_table = 2 -> vram_index - 1024
             [] mirroring = "Horizontal" /\ name_table = 1 -> vram_index - 1024
             [] mirroring = "Horizontal" /\ name_table = 3 -> vram_index - 2048
             [] OTHER -> vram_index
           : vram_index \in {BitAnd(addr, 12287) - 8192},
             name_table \in {(BitAnd(addr, 12287) - 8192) \div 1024} })

PaletteMirrors == {16144, 16148, 16152, 16156}

\* Ppu::write_to_data, were it without the arm of the palette mirrors
write_to_data_unmirrored(m, value) ==
    Pick({
        CASE addr <= 8191 -> Panic(m, "Cannot write to character ROM")
          [] addr \in 8192..12287 ->
                IF idx >= 2048 THEN Panic(m, "index out of bounds")
                ELSE inc_vram_addr([m EXCEPT !.ppu.vram = ArrSet(@, idx, value)])
          [] addr \in 12288..16127 -> Panic(m, "Shouldn't write here")
          [] addr \in 16128..16383 ->
                IF addr - 16128 >= 32 THEN Panic(m, "index out of bounds")
                ELSE inc_vram_addr([m EXCEPT !.ppu.palette_table =
                                        ArrSet(@, addr - 16128, value)])
          [] OTHER -> Panic(m, "Unexpected accesss")
        : addr \in {addr_get(m.ppu.addr)},
          idx \in {mirror_vram_addr(m.ppu.mirroring, addr_get(m.ppu.addr))} })

write_to_data(m, value) ==
    Pick({
        CASE addr <= 8191 -> Panic(m, "Cannot write to character ROM")
          [] addr \in 8192..12287 ->
                IF idx >= 2048 THEN Panic(m, "index out of bounds")
                ELSE inc_vram_addr([m EXCEPT !.ppu.vram = ArrSet(@, idx, value)])
          [] addr \in 12288..16127 -> Panic(m, "Shouldn't write here")
          [] addr \in PaletteMirrors ->
                inc_vram_addr([m EXCEPT !.ppu.palette_table =
                                   ArrSet(@, (addr - 16) - 16128, value)])
          [] addr \in 16128..16383 /\ addr \notin PaletteMirrors ->
                IF addr - 16128 >= 32 THEN Panic(m, "index out of bounds")
                ELSE inc_vram_addr([m EXCEPT !.ppu.palette_table =
                                        ArrSet(@, addr - 16128, value)])
          [] OTHER -> Panic(m, "Unexpected accesss")
        : addr \in {addr_get(m.ppu.addr)},
          idx \in {mirror_vram_addr(m.ppu.mirroring, addr_get(m.ppu.addr))} })

read_data(m) ==
    Pick({
        CASE addr <= 8191 ->
                IF addr >= n.ppu.chr_len THEN Panic(n, "index out of bounds")
                ELSE [n EXCEPT !.ret = m.ppu.internal_buf,
                               !.ppu.internal_buf = ArrGet(m.ppu.chr_rom, addr)]
          [] addr \in 8192..12287 ->
                IF idx >= 2048 THEN Panic(n, "index out of bounds")
                ELSE [n EXCEPT !.ret = m.ppu.internal_buf,
                               !.ppu.internal_buf = ArrGet(m.ppu.vram, idx)]
          [] addr \in 12288..16127 -> Panic(n, "Unexpected access")
          [] addr \in PaletteMirrors ->
                [n EXCEPT !.ret = ArrGet(m.ppu.palette_table, (addr - 16) - 16128)]
          [] addr \in 16128..16383 /\ addr \notin PaletteMirrors ->
                IF addr - 16128 >= 32 THEN Panic(n, "index out of bounds")
                ELSE [n EXCEPT !.ret = ArrGet(m.ppu.palette_table, addr - 16128)]
          [] OTHER -> Panic(n, "unexpected")
        : addr \in {addr_get(m.ppu.addr)},
          n \in {inc_vram_addr(m)},
          idx \in {mirror_vram_addr(m.ppu.mirroring, addr_get(m.ppu.addr))} })

\* Ppu::tick, were it to return frame-complete on every new scanline
ppu_tick_frame_each_line(m, cycles) ==
    LET c1 == m.ppu.cycles + cycles
        line == m.ppu.scanline + 1
        s241 == stat_set_sprite_zero_hit(
                    stat_set_vblank_status(m.ppu.stat, TRUE), FALSE)
        st == IF line = 241 THEN s241 ELSE m.ppu.stat
        nmi == IF line = 241 /\ ctrl_generate_vbalnk_nmi(m.ppu.ctrl)
               THEN Some(1) ELSE m.ppu.nmi_interrupt
    IN  IF c1 >= 341
        THEN IF line >= 262
             THEN [m EXCEPT !.ppu.cycles = c1 - 341,
                            !.ppu.scanline = 0,
                            !.ppu.nmi_interrupt = None,
                            !.ppu.stat = stat_clear_vblank_status(
                                             stat_set_sprite_zero_hit(st, FALSE)),
                            !.ret = TRUE]
             ELSE [m EXCEPT !.ppu.cycles = c1 - 341,
                            !.ppu.scanline = line,
                            !.ppu.nmi_interrupt = nmi,
                            !.ppu.stat = st,
                            !.ret = TRUE]
        ELSE [m EXCEPT !.ppu.cycles = c1, !.ret = FALSE]

\* Ppu::tick, were it to raise the NMI at line 241 whatever CTRL says
ppu_tick_always_nmi(m, cycles) ==
    LET c1 == m.ppu.cycles + cycles
        line == m.ppu.scanline + 1
        s241 == stat_set_sprite_zero_hit(
                    stat_set_vblank_status(m.ppu.stat, TRUE), FALSE)
        st == IF line = 241 THEN s241 ELSE m.ppu.stat
        nmi == IF line = 241 THEN Some(1) ELSE m.ppu.nmi_interrupt
    IN  IF c1 >= 341
        THEN IF line >= 262
             THEN [m EXCEPT !.ppu.cycles = c1 - 341,
                            !.ppu.scanline = 0,
                            !.ppu.nmi_interrupt = None,
                            !.ppu.stat = stat_clear_vblank_status(
                                             stat_set_sprite_zero_hit(st, FALSE)),
                            !.ret = TRUE]
             ELSE [m EXCEPT !.ppu.cycles = c1 - 341,
                            !.ppu.scanline = line,
                            !.ppu.nmi_interrupt = nmi,
                            !.ppu.stat = st,
                            !.ret = FALSE]
        ELSE [m EXCEPT !.ppu.cycles = c1, !.ret = FALSE]

\* Ppu::tick: ret is the frame-complete signal
ppu_tick(m, cycles) ==
    LET c1 == m.ppu.cycles + cycles
        line == m.ppu.scanline + 1
        s241 == stat_set_sprite_zero_hit(
                    stat_set_vblank_status(m.ppu.stat, TRUE), FALSE)
        st == IF line = 241 THEN s241 ELSE m.ppu.stat
        nmi == IF line = 241 /\ ctrl_generate_vbalnk_nmi(m.ppu.ctrl)
               THEN Some(1) ELSE m.ppu.nmi_interrupt
    IN  IF c1 >= 341
        THEN IF line >= 262
             THEN [m EXCEPT !.ppu.cycles = c1 - 341,
                            !.ppu.scanline = 0,
                            !.ppu.nmi_interrupt = None,
                            !.ppu.stat = stat_clear_vblank_status(
                                             stat_set_sprite_zero_hit(st, FALSE)),
                            !.ret = TRUE]
             ELSE [m EXCEPT !.ppu.cycles = c1 - 341,
                            !.ppu.scanline = line,
                            !.ppu.nmi_interrupt = nmi,
                            !.ppu.stat = st,
                            !.ret = FALSE]
        ELSE [m EXCEPT !.ppu.cycles = c1, !.ret = FALSE]

(***************************************************************************)
(* Bus (memory.rs).  Arithmetic that can leave its type (u8, u16) panics   *)
(* in a build with overflow checks and wraps in one without: m.checked     *)
(* says which build runs.                                                  *)
(***************************************************************************)
RAM_MIRROR_END == 8191
PPU_REGISTERS_MIRROR_END == 16383
PRG_ROM == 32768

bus_new(prg_rom, prg_len) ==
    [cpu_vram |-> EmptyArr, prg_rom |-> prg_rom, prg_len |-> prg_len,
     cycles |-> 0, callbacks |-> 0]

\* v: the mathematical result, w: its type's modulus
Arith(m, v, w) ==
    IF v >= w /\ m.checked THEN Panic(m, "attempt to add with overflow") ELSE m

\* Bus::tick, were it to make the callback whatever the PPU's tick returns
bus_tick_every(m, cycles) ==
    Pick({ IF r.fatal # "" THEN r
           ELSE Pick({ [new_frame EXCEPT !.bus.callbacks = @ + 1]
                       : new_frame \in {ppu_tick(r, Wrap8(cycles * 3))} })
           : r \in {Arith([m EXCEPT !.bus.cycles = @ + cycles], cycles * 3, 256)} })

\* Bus::tick
\* Bus::tick, were it to hand the PPU the CPU cycles unscaled
bus_tick_unscaled(m, cycles) ==
    Pick({ IF r.fatal # "" THEN r
           ELSE Pick({ IF new_frame.ret
                       THEN [new_frame EXCEPT !.bus.callbacks = @ + 1]
                       ELSE new_frame
                       : new_frame \in {ppu_tick(r, Wrap8(cycles))} })
           : r \in {Arith([m EXCEPT !.bus.cycles = @ + cycles], cycles * 3, 256)} })

bus_tick(m, cycles) ==
    Pick({ IF r.fatal # "" THEN r
           ELSE Pick({ IF new_frame.ret
                       THEN [new_frame EXCEPT !.bus.callbacks = @ + 1]
                       ELSE new_frame
                       : new_frame \in {ppu_tick(r, Wrap8(cycles * 3))} })
           : r \in {Arith([m EXCEPT !.bus.cycles = @ + cycles], cycles * 3, 256)} })

poll_nmi_status(m) ==
    [m EXCEPT !.ret = m.ppu.nmi_interrupt, !.ppu.nmi_interrupt = None]

read_prg_rom(m, addr) ==
    LET a0 == addr - PRG_ROM
        a == IF m.bus.prg_len = 16384 /\ a0 >= 16384 THEN a0 % 16384 ELSE a0
    IN  IF a >= m.bus.prg_len THEN Panic(m, "index out of bounds")
        ELSE [m EXCEPT !.ret = ArrGet(m.bus.prg_rom, a)]

RECURSIVE mem_read(_, _)
\* Bus::mem_read, were a read of the scroll or the address register to
\* reset the latch of the address as a read of the status register does
mem_read_resetting(m, addr) ==
    CASE addr <= RAM_MIRROR_END ->
            [m EXCEPT !.ret = ArrGet(m.bus.cpu_vram, BitAnd(addr, 2047))]
      [] addr \in {8197, 8198} ->
            [m EXCEPT !.ret = 0, !.ppu.addr = addr_reset_latch(m.ppu.addr)]
      [] addr \in {8192, 8193, 8195, 16404} -> [m EXCEPT !.ret = 0]
      [] addr = 8194 -> read_status(m)
      [] addr = 8196 -> read_oam_data(m)
      [] addr = 8199 -> read_data(m)
      [] addr \in 8200..PPU_REGISTERS_MIRROR_END -> mem_read(m, BitAnd(addr, 8199))
      [] addr \in (16384..16405) \ {16404} -> [m EXCEPT !.ret = 0]
      [] addr = 16406 -> [m EXCEPT !.ret = 0]
      [] addr = 16407 -> [m EXCEPT !.ret = 0]
      [] addr >= PRG_ROM -> read_prg_rom(m, addr)
      [] OTHER -> [m EXCEPT !.ret = 0]

mem_read(m, addr) ==
    CASE addr <= RAM_MIRROR_END ->
            [m EXCEPT !.ret = ArrGet(m.bus.cpu_vram, BitAnd(addr, 2047))]
      [] addr \in {8192, 8193, 8195, 8197, 8198, 16404} -> [m EXCEPT !.ret = 0]
      [] addr = 8194 -> read_status(m)
      [] addr = 8196 -> read_oam_data(m)
      [] addr = 8199 -> read_data(m)
      [] addr \in 8200..PPU_REGISTERS_MIRROR_END -> mem_read(m, BitAnd(addr, 8199))
      [] addr \in (16384..16405) \ {16404} -> [m EXCEPT !.ret = 0]
      [] addr = 16406 -> [m EXCEPT !.ret = 0]
      [] addr = 16407 -> [m EXCEPT !.ret = 0]
      [] addr >= PRG_ROM -> read_prg_rom(m, addr)
      [] OTHER -> [m EXCEPT !.ret = 0]

\* ret is the 16-bit little-endian value at pos, pos + 1
mem_read_u16(m, pos) ==
    Pick({ IF low.fatal # "" THEN low
           ELSE Pick({ IF r.fatal # "" THEN r
                       ELSE Pick({ IF high.fatal # "" THEN high
                                   ELSE [high EXCEPT !.ret = high.ret * 256 + low.ret]
                                   : high \in {mem_read(r, Wrap16(pos + 1))} })
                       : r \in {Arith(low, pos + 1, 65536)} })
           : low \in {mem_read(m, pos)} })

RECURSIVE mem_write(_, _, _)
\* Bus::mem_write, were a write of the PPU status register ignored as a
\* write of an APU register is
mem_write_ignoring(m, addr, data) ==
    CASE addr <= RAM_MIRROR_END ->
            [m EXCEPT !.bus.cpu_vram = ArrSet(@, BitAnd(addr, 2047), data)]
      [] addr = 8192 -> write_to_ctrl(m, data)
      [] addr = 8193 -> write_to_mask(m, data)
      [] addr = 8194 -> m
      [] addr = 8195 -> write_to_oam_addr(m, data)
      [] addr = 8196 -> write_to_oam_data(m, data)
      [] addr = 8197 -> write_to_scroll(m, data)
      [] addr = 8198 -> write_to_ppu_addr(m, data)
      [] addr = 8199 -> write_to_data(m, data)
      [] addr \in 8200..PPU_REGISTERS_MIRROR_END ->
            mem_write(m, BitAnd(addr, 8199), data)
      [] addr \in (16384..16403) \cup {16405} -> m
      [] addr = 16406 -> m
      [] addr = 16407 -> m
      [] addr = 16404 -> Panic(m, "not yet implemented")
      [] addr >= PRG_ROM -> Panic(m, "cannot write to program ROM")
      [] OTHER -> Panic(m, "explicit panic")

mem_write(m, addr, data) ==
    CASE addr <= RAM_MIRROR_END ->
            [m EXCEPT !.bus.cpu_vram = ArrSet(@, BitAnd(addr, 2047), data)]
      [] addr = 8192 -> write_to_ctrl(m, data)
      [] addr = 8193 -> write_to_mask(m, data)
      [] addr = 8194 -> Panic(m, "Cannot write to PPU status register")
      [] addr = 8195 -> write_to_oam_addr(m, data)
      [] addr = 8196 -> write_to_oam_data(m, data)
      [] addr = 8197 -> write_to_scroll(m, data)
      [] addr = 8198 -> write_to_ppu_addr(m, data)
      [] addr = 8199 -> write_to_data(m, data)
      [] addr \in 8200..PPU_REGISTERS_MIRROR_END ->
            mem_write(m, BitAnd(addr, 8199), data)
      [] addr \in (16384..16403) \cup {16405} -> m
      [] addr = 16406 -> m
      [] addr = 16407 -> m
      [] addr = 16404 -> Panic(m, "not yet implemented")
      [] addr >= PRG_ROM -> Panic(m, "cannot write to program ROM")
      [] OTHER -> Panic(m, "explicit panic")

(***************************************************************************)
(* Cpu::new (cpu.rs).                                                      *)
(***************************************************************************)
STACK_RESET == 253

cpu_new == [pc |-> 0, sp |-> STACK_RESET, a |-> 0, x |-> 0, y |-> 0, stat |-> 36]

(***************************************************************************)
(* StatFlags (cpu.rs): the operations of a flag set, on its bits.          *)
(***************************************************************************)
CARRY == 1
ZERO == 2
INTERRUPT_DISABLE == 4
DECIMAL == 8
BREAK == 16
BREAK2 == 32
OVERFLOW == 64
NEGATIVE == 128

flag_contains(s, f) == BitAnd(s, f) = f
flag_insert(s, f) == BitOr(s, f)
flag_remove(s, f) == BitAnd(s, 255 - f)
flag_set(s, f, on) == IF on THEN flag_insert(s, f) ELSE flag_remove(s, f)

(***************************************************************************)
(* Cpu (cpu.rs).  A call made after the process has aborted, or after the  *)
(* run loop has returned, does not happen: it leaves the machine alone.    *)
(***************************************************************************)
STACK_BASE == 256

\* the loop, were it to go on to report the cycles after an arm has returned
Going_through_return(m) == m.fatal = ""

Going(m) == m.fatal = "" /\ ~m.halted


\* Cpu's Mem: the bus's
cpu_mem_read(m, addr) == IF Going(m) THEN mem_read(m, addr) ELSE m
cpu_mem_read_u16(m, pos) == IF Going(m) THEN mem_read_u16(m, pos) ELSE m
cpu_mem_write(m, addr, data) == IF Going(m) THEN mem_write(m, addr, data) ELSE m
cpu_tick(m, cycles) == IF Going(m) THEN bus_tick(m, cycles) ELSE m

\* an assignment to a register of the Cpu, and a value handed back
Reg(m, name, v) == IF Going(m) THEN [m EXCEPT !.cpu[name] = v] ELSE m
Ret(m, v) == IF Going(m) THEN [m EXCEPT !.ret = v] ELSE m
\* an addition that leaves its type: the checked build panics
Checked(m, v, w) == IF Going(m) THEN Arith(m, v, w) ELSE m

update_zero_and_negative_flags(m, result) ==
    LET s1 == flag_set(m.cpu.stat, ZERO, result = 0)
        s2 == flag_set(s1, NEGATIVE, BitAnd(result, 128) # 0)
    IN  Reg(m, "stat", s2)

set_carry_if(m, on) == Reg(m, "stat", flag_set(m.cpu.stat, CARRY, on))

stack_push(m, data) ==
    Pick({ Reg(r, "sp", Wrap8(r.cpu.sp - 1))
           : r \in {cpu_mem_write(m, STACK_BASE + m.cpu.sp, data)} })

stack_push_u16(m, data) ==
    Pick({ stack_push(r, data % 256)
           : r \in {stack_push(m, data \div 256)} })

\* Cpu::stack_pop, were the stack pointer to leave its byte
stack_pop_unwrapped(m) ==
    Pick({ cpu_mem_read(r, STACK_BASE + r.cpu.sp)
           : r \in {Reg(m, "sp", m.cpu.sp + 1)} })

stack_pop(m) ==
    Pick({ cpu_mem_read(r, STACK_BASE + r.cpu.sp)
           : r \in {Reg(m, "sp", Wrap8(m.cpu.sp + 1))} })

stack_pop_u16(m) ==
    Pick({ Pick({ Ret(r2, r2.ret * 256 + r1.ret)
                  : r2 \in {stack_pop(r1)} })
           : r1 \in {stack_pop(m)} })

\* interrupt::NMI
NMI == [vector_addr |-> 65530, b_flag_mask |-> 32, cpu_cycles |-> 2]

\* Cpu::interrupt, were it to push the status after it has set
\* Interrupt-Disable
interrupt_pushing_disable(m, i) ==
    Pick({
      Pick({
        Pick({
          Pick({
            Pick({
              Pick({
                Reg(r5, "pc", r5.ret)
                : r5 \in {cpu_mem_read_u16(r4, i.vector_addr)} })
              : r4 \in {cpu_tick(r3, i.cpu_cycles)} })
            : r3 \in {Reg(r2, "stat", flag_insert(r2.cpu.stat, INTERRUPT_DISABLE))} })
          : r2 \in {stack_push(r1, flag_insert(stat, INTERRUPT_DISABLE))} })
        : stat \in {flag_set(flag_set(r1.cpu.stat, BREAK, BitAnd(i.b_flag_mask, 16) = 1),
                             BREAK2, BitAnd(i.b_flag_mask, 32) = 1)} })
      : r1 \in {stack_push_u16(m, m.cpu.pc)} })

\* `mask & 0b010000 == 1` is (mask & 0b010000) == 1 in Rust
interrupt(m, i) ==
    Pick({
      Pick({
        Pick({
          Pick({
            Pick({
              Pick({
                Reg(r5, "pc", r5.ret)
                : r5 \in {cpu_mem_read_u16(r4, i.vector_addr)} })
              : r4 \in {cpu_tick(r3, i.cpu_cycles)} })
            : r3 \in {Reg(r2, "stat", flag_insert(r2.cpu.stat, INTERRUPT_DISABLE))} })
          : r2 \in {stack_push(r1, stat)} })
        : stat \in {flag_set(flag_set(r1.cpu.stat, BREAK, BitAnd(i.b_flag_mask, 16) = 1),
                             BREAK2, BitAnd(i.b_flag_mask, 32) = 1)} })
      : r1 \in {stack_push_u16(m, m.cpu.pc)} })

\* the two bytes of a pointer in page zero
indirect(m, ptr) ==
    Pick({ Pick({ Ret(r2, r2.ret * 256 + r1.ret)
                  : r2 \in {cpu_mem_read(r1, Wrap8(ptr + 1))} })
           : r1 \in {cpu_mem_read(m, ptr)} })

\* ret is the operand's address
get_operand_address(m, mode) ==
    CASE mode = "Immediate" -> Ret(m, m.cpu.pc)
      [] mode = "ZeroPage" -> cpu_mem_read(m, m.cpu.pc)
      [] mode = "Absolute" -> cpu_mem_read_u16(m, m.cpu.pc)
      [] mode = "ZeroPageX" ->
            Pick({ Ret(r, Wrap8(r.ret + r.cpu.x))
                   : r \in {cpu_mem_read(m, m.cpu.pc)} })
      [] mode = "ZeroPageY" ->
            Pick({ Ret(r, Wrap8(r.ret + r.cpu.y))
                   : r \in {cpu_mem_read(m, m.cpu.pc)} })
      [] mode = "AbsoluteX" ->
            Pick({ Ret(r, Wrap16(r.ret + r.cpu.x))
                   : r \in {cpu_mem_read_u16(m, m.cpu.pc)} })
      [] mode = "AbsoluteY" ->
            Pick({ Ret(r, Wrap16(r.ret + r.cpu.y))
                   : r \in {cpu_mem_read_u16(m, m.cpu.pc)} })
      [] mode = "IndirectX" ->
            Pick({ indirect(r, Wrap8(r.ret + r.cpu.x))
                   : r \in {cpu_mem_read(m, m.cpu.pc)} })
      [] mode = "IndirectY" ->
            Pick({ indirect(r, Wrap8(r.ret + r.cpu.y))
                   : r \in {cpu_mem_read(m, m.cpu.pc)} })
      [] OTHER -> Panic(m, "explicit panic")

\* the operand: ea is its address and ret its value
operand(m, mode) ==
    Pick({ Pick({ IF Going(r2) THEN [r2 EXCEPT !.ea = r1.ret] ELSE r2
                  : r2 \in {cpu_mem_read(r1, r1.ret)} })
           : r1 \in {get_operand_address(m, mode)} })

\* a register, or the cell at ea, takes v, and Z and N follow v
store_result(m, to, v) ==
    Pick({ update_zero_and_negative_flags(r, v)
           : r \in {IF to = "ea" THEN cpu_mem_write(m, m.ea, v) ELSE Reg(m, to, v)} })

\* Cpu::lda, were it to load A and leave the flags as they are
lda_unflagged(m, mode) == Pick({ Reg(r, "a", r.ret)
                                 : r \in {operand(m, mode)} })

lda(m, mode) == Pick({ store_result(r, "a", r.ret)
                       : r \in {operand(m, mode)} })

ldx(m, mode) == Pick({ store_result(r, "x", r.ret)
                       : r \in {operand(m, mode)} })

ldy(m, mode) == Pick({ store_result(r, "y", r.ret)
                       : r \in {operand(m, mode)} })

sta(m, mode) ==
    Pick({ cpu_mem_write(r, r.ret, r.cpu.a)
           : r \in {get_operand_address(m, mode)} })

stx(m, mode) ==
    Pick({ cpu_mem_write(r, r.ret, r.cpu.x)
           : r \in {get_operand_address(m, mode)} })

sty(m, mode) ==
    Pick({ cpu_mem_write(r, r.ret, r.cpu.y)
           : r \in {get_operand_address(m, mode)} })

\* Cpu::add_to_a, were it to adjust the sum to a decimal digit when the
\* Decimal flag is set
add_to_a_decimal(m, data) ==
    LET c == IF flag_contains(m.cpu.stat, CARRY) THEN 1 ELSE 0
        adj == IF flag_contains(m.cpu.stat, DECIMAL)
                  /\ (m.cpu.a % 16) + (data % 16) + c > 9 THEN 6 ELSE 0
        sum == m.cpu.a + data + c + adj
        res == sum % 256
        v == BitAnd(BitAnd(BitXor(data, res), BitXor(res, m.cpu.a)), 128) # 0
        stat == flag_set(flag_set(m.cpu.stat, CARRY, sum > 255), OVERFLOW, v)
    IN  Pick({ Pick({ Reg(r1, "a", res)
                      : r1 \in {update_zero_and_negative_flags(r, res)} })
               : r \in {Reg(m, "stat", stat)} })

add_to_a(m, data) ==
    LET sum == m.cpu.a + data + (IF flag_contains(m.cpu.stat, CARRY) THEN 1 ELSE 0)
        res == sum % 256
        v == BitAnd(BitAnd(BitXor(data, res), BitXor(res, m.cpu.a)), 128) # 0
        stat == flag_set(flag_set(m.cpu.stat, CARRY, sum > 255), OVERFLOW, v)
    IN  Pick({ Pick({ Reg(r1, "a", res)
                      : r1 \in {update_zero_and_negative_flags(r, res)} })
               : r \in {Reg(m, "stat", stat)} })

adc(m, mode) == Pick({ add_to_a(r, r.ret)
                       : r \in {operand(m, mode)} })

\* Cpu::sbc, were it to add the negated operand and not its complement
sbc_negating(m, mode) ==
    Pick({ add_to_a(r, Wrap8(0 - r.ret))
           : r \in {operand(m, mode)} })

\* (val as i8).wrapping_neg().wrapping_sub(1) as u8
sbc(m, mode) ==
    Pick({ add_to_a(r, Wrap8(0 - r.ret - 1))
           : r \in {operand(m, mode)} })

and(m, mode) ==
    Pick({ store_result(r, "a", BitAnd(r.ret, r.cpu.a))
           : r \in {operand(m, mode)} })

ora(m, mode) ==
    Pick({ store_result(r, "a", BitOr(r.ret, r.cpu.a))
           : r \in {operand(m, mode)} })

eor(m, mode) ==
    Pick({ store_result(r, "a", BitXor(r.ret, r.cpu.a))
           : r \in {operand(m, mode)} })

\* the carry of ASL is `data >> 1 == 1`
asl_accumulator(m) ==
    store_result(set_carry_if(m, m.cpu.a \div 2 = 1), "a", Wrap8(m.cpu.a * 2))

asl(m, mode) ==
    Pick({ Pick({ Ret(r1, Wrap8(r.ret * 2))
                  : r1 \in {store_result(set_carry_if(r, r.ret \div 2 = 1), "ea", Wrap8(r.ret * 2))} })
           : r \in {operand(m, mode)} })

lsr_accumulator(m) ==
    store_result(set_carry_if(m, BitAnd(m.cpu.a, 1) = 1), "a", m.cpu.a \div 2)

lsr(m, mode) ==
    Pick({ Pick({ Ret(r1, r.ret \div 2)
                  : r1 \in {store_result(set_carry_if(r, BitAnd(r.ret, 1) = 1), "ea", r.ret \div 2)} })
           : r \in {operand(m, mode)} })

\* data rotated left through the carry
rol_of(m, data) ==
    BitOr(Wrap8(data * 2), IF flag_contains(m.cpu.stat, CARRY) THEN 1 ELSE 0)

rol_accumulator(m) ==
    store_result(set_carry_if(m, m.cpu.a \div 128 = 1), "a", rol_of(m, m.cpu.a))

rol(m, mode) ==
    Pick({ Pick({ Ret(r1, rol_of(r, r.ret))
                  : r1 \in {store_result(set_carry_if(r, r.ret \div 128 = 1), "ea", rol_of(r, r.ret))} })
           : r \in {operand(m, mode)} })

\* data rotated right through the carry
ror_of(m, data) ==
    BitOr(data \div 2, IF flag_contains(m.cpu.stat, CARRY) THEN 128 ELSE 0)

ror_accumulator(m) ==
    store_result(set_carry_if(m, BitAnd(m.cpu.a, 1) = 1), "a", ror_of(m, m.cpu.a))

ror(m, mode) ==
    Pick({ Pick({ Ret(r1, ror_of(r, r.ret))
                  : r1 \in {store_result(set_carry_if(r, BitAnd(r.ret, 1) = 1), "ea", ror_of(r, r.ret))} })
           : r \in {operand(m, mode)} })

bit(m, mode) ==
    Pick({ LET s1 == flag_set(r.cpu.stat, ZERO, BitAnd(r.cpu.a, r.ret) = 0)
               s2 == flag_set(s1, NEGATIVE, BitAnd(r.ret, 128) > 0)
               s3 == flag_set(s2, OVERFLOW, BitAnd(r.ret, 64) > 0)
           IN  Reg(r, "stat", s3)
           : r \in {operand(m, mode)} })

\* the carry of a compare is `data < with`
compare(m, mode, with) ==
    Pick({ Pick({ update_zero_and_negative_flags(r1, Wrap8(with - r.ret))
                  : r1 \in {set_carry_if(r, r.ret < with)} })
           : r \in {operand(m, mode)} })

dec(m, mode) ==
    Pick({ store_result(r, "ea", Wrap8(r.ret - 1))
           : r \in {operand(m, mode)} })

inc(m, mode) ==
    Pick({ Pick({ Ret(r1, Wrap8(r.ret + 1))
                  : r1 \in {store_result(r, "ea", Wrap8(r.ret + 1))} })
           : r \in {operand(m, mode)} })

dex(m) == store_result(m, "x", Wrap8(m.cpu.x - 1))

dey(m) == store_result(m, "y", Wrap8(m.cpu.y - 1))

inx(m) == store_result(m, "x", Wrap8(m.cpu.x + 1))

iny(m) == store_result(m, "y", Wrap8(m.cpu.y + 1))

php(m) ==
    stack_push(m, flag_insert(flag_insert(m.cpu.stat, BREAK), BREAK2))

plp(m) ==
    Pick({ Reg(r, "stat", flag_remove(flag_remove(r.ret, BREAK), BREAK2))
           : r \in {stack_pop(m)} })

branch(m, cond) ==
    IF cond
    THEN Pick({ LET rel == IF r.ret >= 128 THEN 65536 - 256 + r.ret ELSE r.ret
                IN  Reg(r, "pc", Wrap16(Wrap16(r.cpu.pc + 1) + rel))
                : r \in {cpu_mem_read(m, m.cpu.pc)} })
    ELSE m

(***************************************************************************)
(* The instruction table (instructions.rs) and the map the run loop looks  *)
(* an opcode up in: a later entry of the table replaces an earlier one.    *)
(***************************************************************************)
Ins(opcode, mnemonic, len, cycles, mode) ==
    [opcode |-> opcode, mnemonic |-> mnemonic, len |-> len, cycles |-> cycles,
     mode |-> mode]

CPU_INSTRUCTIONS == <<
      Ins(0, "BRK", 1, 7, "Implied"),
      Ins(170, "TAX", 1, 2, "Implied"),
      Ins(138, "TXA", 1, 2, "Implied"),
      Ins(168, "TAY", 1, 2, "Implied"),
      Ins(152, "TYA", 1, 2, "Implied"),
      Ins(186, "TSX", 1, 2, "Implied"),
      Ins(154, "TXS", 1, 2, "Implied"),
      Ins(169, "LDA", 2, 2, "Immediate"),
      Ins(165, "LDA", 2, 3, "ZeroPage"),
      Ins(181, "LDA", 2, 4, "ZeroPageX"),
      Ins(173, "LDA", 3, 4, "Absolute"),
      Ins(189, "LDA", 3, 4, "AbsoluteX"),
      Ins(185, "LDA", 3, 4, "AbsoluteY"),
      Ins(161, "LDA", 2, 6, "IndirectX"),
      Ins(177, "LDA", 2, 5, "IndirectY"),
      Ins(162, "LDX", 2, 2, "Immediate"),
      Ins(166, "LDX", 2, 3, "ZeroPage"),
      Ins(182, "LDX", 2, 4, "ZeroPageY"),
      Ins(174, "LDX", 3, 4, "Absolute"),
      Ins(190, "LDX", 3, 4, "AbsoluteY"),
      Ins(160, "LDY", 2, 2, "Immediate"),
      Ins(164, "LDY", 2, 3, "ZeroPage"),
      Ins(180, "LDY", 2, 4, "ZeroPageX"),
      Ins(172, "LDY", 3, 4, "Absolute"),
      Ins(188, "LDY", 3, 4, "AbsoluteX"),
      Ins(133, "STA", 2, 3, "ZeroPage"),
      Ins(149, "STA", 2, 4, "ZeroPageX"),
      Ins(141, "STA", 3, 4, "Absolute"),
      Ins(157, "STA", 3, 5, "AbsoluteX"),
      Ins(153, "STA", 3, 5, "AbsoluteY"),
      Ins(129, "STA", 2, 6, "IndirectX"),
      Ins(145, "STA", 2, 6, "IndirectY"),
      Ins(134, "STX", 2, 3, "ZeroPage"),
      Ins(150, "STX", 2, 4, "ZeroPageY"),
      Ins(142, "STX", 3, 4, "Absolute"),
      Ins(132, "STY", 2, 3, "ZeroPage"),
      Ins(148, "STY", 2, 4, "ZeroPageX"),
      Ins(140, "STY", 3, 4, "Absolute"),
      Ins(105, "ADC", 2, 2, "Immediate"),
      Ins(101, "ADC", 2, 3, "ZeroPage"),
      Ins(117, "ADC", 2, 4, "ZeroPageX"),
      Ins(109, "ADC", 3, 4, "Absolute"),
      Ins(125, "ADC", 3, 4, "AbsoluteX"),
      Ins(121, "ADC", 3, 4, "AbsoluteY"),
      Ins(97, "ADC", 2, 6, "IndirectX"),
      Ins(113, "ADC", 2, 5, "IndirectY"),
      Ins(41, "AND", 2, 2, "Immediate"),
      Ins(37, "AND", 2, 3, "ZeroPage"),
      Ins(53, "AND", 2, 4, "ZeroPageX"),
      Ins(45, "AND", 3, 4, "Absolute"),
      Ins(61, "AND", 3, 4, "AbsoluteX"),
      Ins(57, "AND", 3, 4, "AbsoluteY"),
      Ins(33, "AND", 2, 6, "IndirectX"),
      Ins(49, "AND", 2, 5, "IndirectY"),
      Ins(233, "SBC", 2, 2, "Immediate"),
      Ins(229, "SBC", 2, 3, "ZeroPage"),
      Ins(245, "SBC", 2, 4, "ZeroPageX"),
      Ins(237, "SBC", 3, 4, "Absolute"),
      Ins(253, "SBC", 3, 4, "AbsoluteX"),
      Ins(249, "SBC", 3, 4, "AbsoluteY"),
      Ins(225, "SBC", 2, 6, "IndirectX"),
      Ins(241, "SBC", 2, 5, "IndirectY"),
      Ins(10, "ASL", 1, 2, "Implied"),
      Ins(6, "ASL", 2, 5, "ZeroPage"),
      Ins(22, "ASL", 2, 6, "ZeroPageX"),
      Ins(14, "ASL", 3, 6, "Absolute"),
      Ins(30, "ASL", 3, 7, "AbsoluteX"),
      Ins(74, "LSR", 1, 2, "Implied"),
      Ins(70, "LSR", 2, 5, "ZeroPage"),
      Ins(86, "LSR", 2, 6, "ZeroPageX"),
      Ins(78, "LSR", 3, 6, "Absolute"),
      Ins(94, "LSR", 3, 7, "AbsoluteX"),
      Ins(36, "BIT", 2, 3, "ZeroPage"),
      Ins(44, "BIT", 3, 4, "Absolute"),
      Ins(201, "CMP", 2, 2, "Immediate"),
      Ins(197, "CMP", 2, 3, "ZeroPage"),
      Ins(213, "CMP", 2, 4, "ZeroPageX"),
      Ins(205, "CMP", 3, 4, "Absolute"),
      Ins(221, "CMP", 3, 4, "AbsoluteX"),
      Ins(217, "CMP", 3, 4, "AbsoluteY"),
      Ins(193, "CMP", 2, 6, "IndirectX"),
      Ins(209, "CMP", 2, 5, "IndirectY"),
      Ins(224, "CPX", 2, 2, "Immediate"),
      Ins(228, "CPX", 2, 3, "ZeroPage"),
      Ins(236, "CPX", 3, 4, "Absolute"),
      Ins(192, "CPY", 2, 2, "Immediate"),
      Ins(196, "CPY", 2, 3, "ZeroPage"),
      Ins(204, "CPY", 3, 4, "Absolute"),
      Ins(198, "DEC", 2, 5, "ZeroPage"),
      Ins(214, "DEC", 2, 6, "ZeroPageX"),
      Ins(206, "DEC", 3, 6, "Absolute"),
      Ins(222, "DEC", 3, 7, "AbsoluteX"),
      Ins(202, "DEX", 1, 2, "Implied"),
      Ins(136, "DEY", 1, 2, "Implied"),
      Ins(230, "INC", 2, 5, "ZeroPage"),
      Ins(246, "INC", 2, 6, "ZeroPageX"),
      Ins(238, "INC", 3, 6, "Absolute"),
      Ins(254, "INC", 3, 7, "AbsoluteX"),
      Ins(232, "INX", 1, 2, "Implied"),
      Ins(200, "INY", 1, 2, "Implied"),
      Ins(73, "EOR", 2, 2, "Immediate"),
      Ins(69, "EOR", 2, 3, "ZeroPage"),
      Ins(85, "EOR", 2, 4, "ZeroPageX"),
      Ins(77, "EOR", 3, 4, "Absolute"),
      Ins(93, "EOR", 3, 4, "AbsoluteX"),
      Ins(89, "EOR", 3, 4, "AbsoluteY"),
      Ins(65, "EOR", 2, 6, "IndirectX"),
      Ins(81, "EOR", 2, 5, "IndirectY"),
      Ins(72, "PHA", 1, 2, "Implied"),
      Ins(104, "PLA", 1, 4, "Implied"),
      Ins(8, "PHP", 1, 3, "Implied"),
      Ins(40, "PLP", 1, 3, "Implied"),
      Ins(64, "RTI", 1, 6, "Implied"),
      Ins(96, "RTS", 1, 6, "Implied"),
      Ins(76, "JMP", 3, 5, "Absolute"),
      Ins(32, "JSR", 3, 6, "Absolute") >>

INSTRUCTION_MAP ==
    [o \in {CPU_INSTRUCTIONS[i].opcode : i \in DOMAIN CPU_INSTRUCTIONS} |->
        LET at == {i \in DOMAIN CPU_INSTRUCTIONS : CPU_INSTRUCTIONS[i].opcode = o}
        IN  CPU_INSTRUCTIONS[CHOOSE i \in at : \A j \in at : j <= i]]

(***************************************************************************)
(* The run loop (Cpu::run_with_callback).                                  *)
(***************************************************************************)
\* trace (trace.rs): the operand of an instruction that has one in memory,
\* read at the address the instruction will use, with PC moved onto the
\* operand bytes and back
trace_operand(m, mode) ==
    IF mode \in {"Immediate", "Implied", "Relative"} THEN m
    ELSE Pick({
           Pick({
             Pick({ cpu_mem_read(r3, r2.ret)
                    : r3 \in {Reg(r2, "pc", r2.cpu.pc - 1)} })
             : r2 \in {get_operand_address(r1, mode)} })
           : r1 \in {Reg(Checked(m, m.cpu.pc + 1, 65536), "pc",
                         Wrap16(m.cpu.pc + 1))} })

\* trace: the bytes after the opcode, read for the hex dump
trace_dump(m, inst_begin, len) ==
    CASE len = 2 ->
            Pick({ cpu_mem_read(r, Wrap16(inst_begin + 1))
                   : r \in {Checked(m, inst_begin + 1, 65536)} })
      [] len = 3 ->
            Pick({
              Pick({
                Pick({ cpu_mem_read_u16(r3, Wrap16(inst_begin + 1))
                       : r3 \in {cpu_mem_read(Checked(r2, inst_begin + 2, 65536),
                                              Wrap16(inst_begin + 2))} })
                : r2 \in {cpu_mem_read(r1, Wrap16(inst_begin + 1))} })
              : r1 \in {Checked(m, inst_begin + 1, 65536)} })
      [] OTHER -> m

\* trace: the String it returns is not kept
trace(m) ==
    Pick({ IF ~Going(code) THEN code
           ELSE IF code.ret \notin DOMAIN INSTRUCTION_MAP
                THEN Panic(code, "called Option::unwrap() on a None value")
           ELSE Pick({ trace_dump(r, m.cpu.pc, INSTRUCTION_MAP[code.ret].len)
                       : r \in {trace_operand(code, INSTRUCTION_MAP[code.ret].mode)} })
           : code \in {cpu_mem_read(m, m.cpu.pc)} })

\* the callback, which is handed the Cpu: seen keeps what it was handed; the
\* callback is empty (Cpu::run) or calls trace
callback(m) ==
    IF ~Going(m) THEN m
    ELSE IF m.tracing THEN trace([m EXCEPT !.seen = Append(@, m.cpu)])
    ELSE [m EXCEPT !.seen = Append(@, m.cpu)]

\* the arm of the match for an opcode of the table
execute(m, opcode, cur_inst) ==
    LET mode == cur_inst.mode
        s == m.cpu.stat
    IN
    CASE opcode = 0 -> [m EXCEPT !.halted = TRUE]
      [] opcode = 170 -> store_result(m, "x", m.cpu.a)
      [] opcode = 138 -> store_result(m, "a", m.cpu.x)
      [] opcode = 168 -> store_result(m, "y", m.cpu.a)
      [] opcode = 152 -> store_result(m, "a", m.cpu.y)
      [] opcode = 186 -> store_result(m, "x", m.cpu.sp)
      [] opcode = 154 -> store_result(m, "sp", m.cpu.x)
      [] opcode \in {169, 165, 181, 173, 189, 185, 161, 177} -> lda(m, mode)
      [] opcode \in {162, 166, 182, 174, 190} -> ldx(m, mode)
      [] opcode \in {160, 164, 180, 172, 188} -> ldy(m, mode)
      [] opcode \in {133, 149, 141, 157, 153, 129, 145} -> sta(m, mode)
      [] opcode \in {134, 150, 142} -> stx(m, mode)
      [] opcode \in {132, 148, 140} -> sty(m, mode)
      [] opcode \in {105, 101, 117, 109, 125, 121, 97, 113} -> adc(m, mode)
      [] opcode \in {41, 37, 53, 45, 61, 57, 33, 49} -> and(m, mode)
      [] opcode \in {9, 5, 21, 13, 29, 25, 1, 17} -> ora(m, mode)
      [] opcode = 10 -> asl_accumulator(m)
      [] opcode \in {6, 22, 14, 30} -> asl(m, mode)
      [] opcode = 74 -> lsr_accumulator(m)
      [] opcode \in {70, 86, 78, 94} -> lsr(m, mode)
      [] opcode = 42 -> rol_accumulator(m)
      [] opcode \in {38, 54, 46, 62} -> rol(m, mode)
      [] opcode = 106 -> ror_accumulator(m)
      [] opcode \in {102, 118, 110, 126} -> ror(m, mode)
      [] opcode \in {36, 44} -> bit(m, mode)
      [] opcode \in {201, 197, 213, 205, 221, 217, 193, 209} ->
            compare(m, mode, m.cpu.a)
      [] opcode \in {224, 228, 236} -> compare(m, mode, m.cpu.x)
      [] opcode \in {192, 196, 204} -> compare(m, mode, m.cpu.y)
      [] opcode \in {198, 214, 206, 222} -> dec(m, mode)
      [] opcode = 202 -> dex(m)
      [] opcode = 136 -> dey(m)
      [] opcode \in {230, 246, 238, 254} -> inc(m, mode)
      [] opcode = 232 -> inx(m)
      [] opcode = 200 -> iny(m)
      [] opcode \in {73, 69, 85, 77, 93, 89, 65, 81} -> eor(m, mode)
      [] opcode \in {233, 229, 245, 237, 253, 249, 225, 241} -> sbc(m, mode)
      [] opcode = 72 -> stack_push(m, m.cpu.a)
      [] opcode = 104 -> Pick({ Reg(r, "a", r.ret)
                                : r \in {stack_pop(m)} })
      [] opcode = 8 -> php(m)
      [] opcode = 40 -> plp(m)
      [] opcode = 64 ->
            Pick({
              Pick({
                Pick({
                  Reg(r3, "pc", r3.ret)
                  : r3 \in {stack_pop_u16(r2)} })
                : r2 \in {Reg(r1, "stat", flag_insert(flag_remove(r1.ret, BREAK), BREAK2))} })
              : r1 \in {stack_pop(m)} })
      [] opcode = 96 ->
            Pick({ Pick({ Reg(r2, "pc", Wrap16(r1.ret + 1))
                          : r2 \in {Checked(r1, r1.ret + 1, 65536)} })
                   : r1 \in {stack_pop_u16(m)} })
      [] opcode = 76 ->
            Pick({ Reg(r, "pc", r.ret)
                   : r \in {cpu_mem_read_u16(m, m.cpu.pc)} })
      [] opcode = 108 ->
            Pick({ Pick({ Reg(r2, "pc", r2.ret)
                          : r2 \in {IF BitAnd(r1.ret, 255) = 255
                                    THEN Pick({ Pick({ Ret(hi, hi.ret * 256 + lo.ret)
                                                       : hi \in {cpu_mem_read(lo, BitAnd(r1.ret, 65280))} })
                                                : lo \in {cpu_mem_read(r1, r1.ret)} })
                                    ELSE cpu_mem_read_u16(r1, r1.ret)} })
                   : r1 \in {cpu_mem_read_u16(m, m.cpu.pc)} })
      [] opcode = 32 ->
            Pick({
              Pick({
                Pick({
                  Reg(r3, "pc", r3.ret)
                  : r3 \in {cpu_mem_read_u16(r2, r2.cpu.pc)} })
                : r2 \in {stack_push_u16(r1, Wrap16(Wrap16(m.cpu.pc + 2) - 1))} })
              : r1 \in {Checked(m, m.cpu.pc + 2, 65536)} })
      [] opcode = 144 -> branch(m, ~flag_contains(s, CARRY))
      [] opcode = 176 -> branch(m, flag_contains(s, CARRY))
      [] opcode = 240 -> branch(m, flag_contains(s, ZERO))
      [] opcode = 208 -> branch(m, ~flag_contains(s, ZERO))
      [] opcode = 16 -> branch(m, ~flag_contains(s, NEGATIVE))
      [] opcode = 48 -> branch(m, flag_contains(s, NEGATIVE))
      [] opcode = 80 -> branch(m, ~flag_contains(s, OVERFLOW))
      [] opcode = 112 -> branch(m, flag_contains(s, OVERFLOW))
      [] opcode = 24 -> Reg(m, "stat", flag_remove(s, CARRY))
      [] opcode = 56 -> Reg(m, "stat", flag_insert(s, CARRY))
      [] opcode = 88 -> Reg(m, "stat", flag_remove(s, INTERRUPT_DISABLE))
      [] opcode = 120 -> Reg(m, "stat", flag_insert(s, INTERRUPT_DISABLE))
      [] opcode = 184 -> Reg(m, "stat", flag_remove(s, OVERFLOW))
      [] opcode = 216 -> Reg(m, "stat", flag_remove(s, DECIMAL))
      [] opcode = 248 -> Reg(m, "stat", flag_insert(s, DECIMAL))
      [] opcode = 234 -> m
      \* the arms of the unofficial opcodes: the table has none of them
      [] OTHER -> m

\* one turn of the loop; ir is the opcode it fetched
\* a turn of the loop, were the PPU ticked before the instruction runs
run_turn_tick_first(m) ==
    Pick({
      Pick({
        Pick({
          Pick({
            Pick({
              Pick({
                Pick({
                  Pick({
                    \* pc_to_operand is r6's pc
                    IF Going(r8) /\ r6.cpu.pc = r8.cpu.pc
                    THEN LET to == r8.cpu.pc + (INSTRUCTION_MAP[r6.ir].len - 1)
                         IN  Reg(Checked(r8, to, 65536), "pc", Wrap16(to))
                    ELSE r8
                    : r8 \in {IF ~Going(r7) THEN r7
                            ELSE execute(r7, r6.ir, INSTRUCTION_MAP[r6.ir])} })
                  : r7 \in {IF ~Going(r6) THEN r6
                            ELSE IF r6.ir \notin DOMAIN INSTRUCTION_MAP
                                 THEN Panic(r6, "opcode is not recognized")
                            ELSE bus_tick(r6, INSTRUCTION_MAP[r6.ir].cycles)} })
                : r6 \in {IF Going(r5)
                          THEN [r5 EXCEPT !.cpu.pc = Wrap16(@ + 1), !.ir = r4.ret] ELSE r5} })
              : r5 \in {Checked(r4, r4.cpu.pc + 1, 65536)} })
            : r4 \in {cpu_mem_read(r3, r3.cpu.pc)} })
          : r3 \in {callback(r2)} })
        : r2 \in {IF r1.ret # None THEN interrupt(r1, NMI) ELSE r1} })
      : r1 \in {poll_nmi_status(m)} })

\* the turn, were the callback made once the instruction has run
run_turn_callback_last(m) ==
  callback(
    Pick({
      Pick({
        Pick({
          Pick({
            Pick({
              Pick({
                Pick({
                  Pick({
                    \* pc_to_operand is r6's pc
                    IF Going(r8) /\ r6.cpu.pc = r8.cpu.pc
                    THEN LET to == r8.cpu.pc + (INSTRUCTION_MAP[r6.ir].len - 1)
                         IN  Reg(Checked(r8, to, 65536), "pc", Wrap16(to))
                    ELSE r8
                    : r8 \in {IF Going(r7) THEN bus_tick(r7, INSTRUCTION_MAP[r6.ir].cycles) ELSE r7} })
                  : r7 \in {IF ~Going(r6) THEN r6
                            ELSE IF r6.ir \notin DOMAIN INSTRUCTION_MAP
                                 THEN Panic(r6, "opcode is not recognized")
                            ELSE execute(r6, r6.ir, INSTRUCTION_MAP[r6.ir])} })
                : r6 \in {IF Going(r5)
                          THEN [r5 EXCEPT !.cpu.pc = Wrap16(@ + 1), !.ir = r4.ret] ELSE r5} })
              : r5 \in {Checked(r4, r4.cpu.pc + 1, 65536)} })
            : r4 \in {cpu_mem_read(r3, r3.cpu.pc)} })
          : r3 \in {r2} })
        : r2 \in {IF r1.ret # None THEN interrupt(r1, NMI) ELSE r1} })
      : r1 \in {poll_nmi_status(m)} }))

run_turn(m) ==
    Pick({
      Pick({
        Pick({
          Pick({
            Pick({
              Pick({
                Pick({
                  Pick({
                    \* pc_to_operand is r6's pc
                    IF Going(r8) /\ r6.cpu.pc = r8.cpu.pc
                    THEN LET to == r8.cpu.pc + (INSTRUCTION_MAP[r6.ir].len - 1)
                         IN  Reg(Checked(r8, to, 65536), "pc", Wrap16(to))
                    ELSE r8
                    : r8 \in {IF Going(r7) THEN bus_tick(r7, INSTRUCTION_MAP[r6.ir].cycles) ELSE r7} })
                  : r7 \in {IF ~Going(r6) THEN r6
                            ELSE IF r6.ir \notin DOMAIN INSTRUCTION_MAP
                                 THEN Panic(r6, "opcode is not recognized")
                            ELSE execute(r6, r6.ir, INSTRUCTION_MAP[r6.ir])} })
                : r6 \in {IF Going(r5)
                          THEN [r5 EXCEPT !.cpu.pc = Wrap16(@ + 1), !.ir = r4.ret] ELSE r5} })
              : r5 \in {Checked(r4, r4.cpu.pc + 1, 65536)} })
            : r4 \in {cpu_mem_read(r3, r3.cpu.pc)} })
          : r3 \in {callback(r2)} })
        : r2 \in {IF r1.ret # None THEN interrupt(r1, NMI) ELSE r1} })
      : r1 \in {poll_nmi_status(m)} })

(***************************************************************************)
(* The machine of a state, and the state of a machine.                     *)
(***************************************************************************)
\* checked: the build that runs has overflow checks (debug) or wraps (release)
M(chk) == [cpu |-> cpu, bus |-> bus, ppu |-> ppu, fatal |-> fatal,
           halted |-> halted, checked |-> chk, ret |-> 0, ea |-> 0, ir |-> 0,
           seen |-> <<>>, tracing |-> FALSE]

FrameCycles == 341 * 262

\* the observer: PPU cycles handed to Ppu::tick, frame-complete signals it
\* returned, times the vblank bit went from 0 to 1, and the 0x2006 writes
\* made since the last read of 0x2002 (while nothing else was called), and
\* the reads and writes of 0x2007 made since the last write of 0x2006, and
\* the VRAM address of the last write of 0x2007 that stored its byte, and the
\* calls of Cpu::reset made after the first
hist_new == [elapsed |-> 0, frames |-> 0, vblanks |-> 0, since |-> <<-1>>,
             port |-> 0, wrote |-> -1, resets |-> 0]

Observe(r, op, a, ticked, framed) ==
    [elapsed |-> hist.elapsed + ticked,
     frames |-> hist.frames + (IF framed THEN 1 ELSE 0),
     vblanks |-> hist.vblanks
                 + (IF ~stat_is_in_vblank(ppu.stat) /\ stat_is_in_vblank(r.ppu.stat)
                    THEN 1 ELSE 0),
     since |-> IF r.fatal # "" THEN <<-1>>
               ELSE IF op = "mem_read" /\ a[1] = 8194
                    THEN <<IF ppu.addr.hi_ptr THEN 0 ELSE 1>>
               ELSE IF op = "mem_write" /\ a[1] = 8198 /\ hist.since # <<-1>>
                       /\ Len(hist.since) <= 2
                    THEN Append(hist.since, a[2])
               ELSE <<-1>>,
     port |-> IF op \in {"mem_read", "mem_write"} /\ a[1] = 8199
              THEN hist.port + 1
              ELSE IF op = "mem_write" /\ a[1] = 8198 THEN 0
              ELSE hist.port,
     wrote |-> IF op = "mem_write" /\ a[1] = 8199 /\ r.fatal = ""
               THEN addr_get(ppu.addr) ELSE hist.wrote,
     resets |-> hist.resets + (IF op = "reset" THEN 1 ELSE 0)]

Commit(r, op, a, ticked, framed) ==
    /\ cpu' = r.cpu
    /\ bus' = r.bus
    /\ ppu' = r.ppu
    /\ fatal' = r.fatal
    /\ halted' = r.halted
    /\ last' = [op |-> op, args |-> a, ret |-> r.ret]
    /\ hist' = Observe(r, op, a, ticked, framed)

last_new == [op |-> "new", args |-> <<>>, ret |-> 0]

(***************************************************************************)
(* The PPU driven directly through its public methods, from construction   *)
(* through its first frame.  Ppu's methods do no arithmetic that can leave *)
(* its type, so both builds behave alike.                                  *)
(***************************************************************************)
Overrun == 341

TickCycles == {1, 6, 21, 255}
CtrlData == {0, 128}

PpuTick ==
    \E c \in TickCycles :
        /\ fatal = ""
        /\ hist.elapsed + c <= FrameCycles + Overrun
        /\ LET r == ppu_tick(M(TRUE), c) IN Commit(r, "tick", <<>>, c, r.ret)

PpuWriteCtrl ==
    \E v \in CtrlData :
        /\ fatal = ""
        /\ Commit(write_to_ctrl(M(TRUE), v), "write_to_ctrl", <<v>>, 0, FALSE)

PpuReadStatus ==
    /\ fatal = ""
    /\ Commit(read_status(M(TRUE)), "read_status", <<>>, 0, FALSE)

InitPpu ==
    /\ cpu = cpu_new
    /\ bus = bus_new(EmptyArr, 32768)
    /\ ppu = ppu_new(EmptyArr, 8192, "Horizontal")
    /\ fatal = ""
    /\ halted = FALSE
    /\ last = last_new
    /\ hist = hist_new

NextPpu == PpuTick \/ PpuWriteCtrl \/ PpuReadStatus

SpecPpu == InitPpu /\ [][NextPpu]_vars

(***************************************************************************)
(* The bus driven through its public methods.  The PPU clock starts at     *)
(* construction, or where bus ticks alone have brought it: just before the *)
(* vblank line, or just before the end of the frame with the vblank bit    *)
(* set at line 241.                                                        *)
(***************************************************************************)
MaxBusCycles == 9

BusStarts ==
    {[scanline |-> 0, cycles |-> 0, stat |-> 0, vblanks |-> 0],
     [scanline |-> 240, cycles |-> 339, stat |-> 0, vblanks |-> 0],
     [scanline |-> 261, cycles |-> 339, stat |-> VBLANK_STARTED, vblanks |-> 1]}

StartElapsed(s) == s.scanline * 341 + s.cycles

\* CPU cycles the bus has been ticked since its start
SinceStart ==
    LET below == {StartElapsed(s) \div 3 : s \in BusStarts} \cap 0..bus.cycles
    IN  bus.cycles - (CHOOSE b \in below : \A o \in below : o <= b)

BusTickCycles == {2, 7}
\* the PPU status register, two of its mirrors, and the ends of PRG ROM
ReadOnly == {8194, 8202, 16378, 32768, 65535}

BusWrites ==
    ({8192} \X {0, 127, 128}) \cup ({8197} \X {17}) \cup ({8198} \X {0, 33, 255})
    \cup (ReadOnly \X {102})

BusReads == {8192, 8194}

BusTick ==
    \E c \in BusTickCycles, chk \in BOOLEAN :
        /\ fatal = ""
        /\ SinceStart + c <= MaxBusCycles
        /\ LET r == bus_tick(M(chk), c) IN Commit(r, "tick", <<>>, 3 * c, r.ret)

BusWrite ==
    \E w \in BusWrites :
        /\ fatal = ""
        /\ Commit(mem_write(M(TRUE), w[1], w[2]), "mem_write", w, 0, FALSE)

BusRead ==
    \E a \in BusReads :
        /\ fatal = ""
        /\ Commit(mem_read(M(TRUE), a), "mem_read", <<a>>, 0, FALSE)

BusPollNmi ==
    /\ fatal = ""
    /\ Commit(poll_nmi_status(M(TRUE)), "poll_nmi_status", <<>>, 0, FALSE)

InitBus ==
    \E s \in BusStarts :
        /\ cpu = cpu_new
        /\ bus = [bus_new(EmptyArr, 32768) EXCEPT !.cycles = StartElapsed(s) \div 3]
        /\ ppu = [ppu_new(EmptyArr, 8192, "Horizontal") EXCEPT
                      !.scanline = s.scanline, !.cycles = s.cycles, !.stat = s.stat]
        /\ fatal = ""
        /\ halted = FALSE
        /\ last = last_new
        /\ hist = [hist_new EXCEPT !.elapsed = StartElapsed(s), !.vblanks = s.vblanks]

NextBus == BusTick \/ BusWrite \/ BusRead \/ BusPollNmi

SpecBus == InitBus /\ [][NextBus]_vars

(***************************************************************************)
(* The CPU programming the PPU data port: the address through 0x2006, high *)
(* byte then low byte, the increment through bit 2 of 0x2000, and the data *)
(* through 0x2007, on a cartridge of either mirroring with 8 KiB of CHR    *)
(* ROM.  A run chooses the increment before anything else, accesses 0x2007 *)
(* when both bytes of the address are set, at most MaxPortRun times before *)
(* it sets the next address, and stores at most MaxCells bytes, each as    *)
(* the first access after an address was set.                              *)
(***************************************************************************)
MaxPortRun == 2
MaxCells == 1

\* the last page of the pattern tables, the first and the last page of each
\* nametable, the first page of the nametable mirror, the page of the
\* palettes, and that page with a bit above the 14 bits of the address
PortHi == {31, 32, 35, 36, 39, 40, 43, 44, 47, 48, 63, 127}
\* the first byte of a page that starts a range and the last byte of one
\* that ends it and, for the palettes, the entries that have a mirror, their
\* mirrors, the entry past the end of the table and the last address
PortLo(hi) ==
    CASE hi = 63 -> {0, 4, 8, 12, 16, 20, 24, 28, 32, 255}
      [] hi \in {31, 35, 39, 43, 47} -> {255}
      [] OTHER -> {0}
PortData == {102}
PortCtrl == {0, VRAM_ADD_INCREMENT}
PortChr == ArrSet(ArrSet(EmptyArr, 0, 17), 8191, 34)

PortCells == Cardinality(DOMAIN ppu.vram) + Cardinality(DOMAIN ppu.palette_table)

PortWriteAddr ==
    \E v \in (IF ppu.addr.hi_ptr THEN PortHi ELSE PortLo(ppu.addr.value0)) :
        /\ fatal = ""
        /\ Commit(mem_write(M(TRUE), 8198, v), "mem_write", <<8198, v>>, 0, FALSE)

PortWriteCtrl ==
    \E v \in PortCtrl :
        /\ fatal = ""
        /\ last = last_new
        /\ Commit(mem_write(M(TRUE), 8192, v), "mem_write", <<8192, v>>, 0, FALSE)

PortWriteData ==
    \E v \in PortData :
        /\ fatal = ""
        /\ ppu.addr.hi_ptr
        /\ hist.port = 0
        /\ PortCells < MaxCells
        /\ Commit(mem_write(M(TRUE), 8199, v), "mem_write", <<8199, v>>, 0, FALSE)

PortReadData ==
    /\ fatal = ""
    /\ ppu.addr.hi_ptr
    /\ hist.port < MaxPortRun
    /\ Commit(mem_read(M(TRUE), 8199), "mem_read", <<8199>>, 0, FALSE)

InitPort ==
    \E mirroring \in {"Vertical", "Horizontal"} :
        /\ cpu = cpu_new
        /\ bus = bus_new(EmptyArr, 32768)
        /\ ppu = ppu_new(PortChr, 8192, mirroring)
        /\ fatal = ""
        /\ halted = FALSE
        /\ last = last_new
        /\ hist = hist_new

NextPort ==
    PortWriteAddr \/ PortWriteCtrl \/ PortWriteData \/ PortReadData

SpecPort == InitPort /\ [][NextPort]_vars

(***************************************************************************)
(* The CPU reading where nothing is to be read, between writes of 0x2000   *)
(* and 0x2006 and reads of 0x2007: two write-only PPU registers, two       *)
(* mirrors of such, the ends of the APU and joypad range, and the ends of  *)
(* the unmapped range.                                                     *)
(***************************************************************************)
QuietReads == {8193, 8198, 8205, 16382, 16384, 16407, 16408, 32767}

PortReadQuiet ==
    \E a \in QuietReads :
        /\ fatal = ""
        /\ Commit(mem_read(M(TRUE), a), "mem_read", <<a>>, 0, FALSE)

NextQuiet == PortWriteAddr \/ PortWriteCtrl \/ PortReadData \/ PortReadQuiet

SpecQuiet == InitPort /\ [][NextQuiet]_vars

(***************************************************************************)
(* The interpreter running a cartridge: Bus::new, Cpu::new, Cpu::reset and *)
(* then the run loop, one turn a step.  A cartridge is 32 KiB of PRG ROM,  *)
(* zero but for the code at 0x8000 and the reset and NMI vectors.  The PPU *)
(* clock starts at construction or, for the NMI, late in line 240 of the   *)
(* first frame.                                                            *)
(***************************************************************************)
\* arr with the bytes of code from base on
Load(arr, base, code) ==
    LET at == {base + k - 1 : k \in 1..Len(code)}
        put == {i \in at : code[i - base + 1] # 0}
    IN  [i \in (DOMAIN arr \ at) \cup put |->
            IF i \in put THEN code[i - base + 1] ELSE arr[i]]

\* the PRG ROM holding code, with the handler of the NMI at nmi
Cartridge(code, nmi) ==
    Load(Load(EmptyArr, 0, code), 32762, <<nmi % 256, nmi \div 256, 0, 128>>)

\* Cpu::reset, were it to leave the status register as it is
reset_keeping_status(m) ==
    Pick({ Pick({ [r2 EXCEPT !.cpu.pc = r2.ret, !.cpu.sp = STACK_RESET]
                  : r2 \in {cpu_mem_read_u16(r1, 65532)} })
           : r1 \in {[m EXCEPT !.cpu.a = 0, !.cpu.x = 0]} })

reset(m) ==
    Pick({ Pick({ [r2 EXCEPT !.cpu.pc = r2.ret, !.cpu.sp = STACK_RESET]
                  : r2 \in {cpu_mem_read_u16(r1, 65532)} })
           : r1 \in {[m EXCEPT !.cpu.a = 0, !.cpu.x = 0, !.cpu.stat = 36]} })

\* dot and line of the PPU when the run starts, and the CPU cycles so far
Boot(code, nmi, line, dot) ==
    reset([cpu |-> cpu_new,
           bus |-> [bus_new(Cartridge(code, nmi), 32768) EXCEPT
                        !.cycles = (line * 341 + dot) \div 3],
           ppu |-> [ppu_new(EmptyArr, 8192, "Horizontal") EXCEPT
                        !.scanline = line, !.cycles = dot],
           fatal |-> "", halted |-> FALSE, checked |-> TRUE,
           ret |-> 0, ea |-> 0, ir |-> 0, seen |-> <<>>,
           tracing |-> FALSE])

Booted(b) ==
    /\ cpu = b.cpu
    /\ bus = b.bus
    /\ ppu = b.ppu
    /\ fatal = ""
    /\ halted = FALSE
    /\ last = last_new
    /\ hist = [hist_new EXCEPT !.elapsed = b.ppu.scanline * 341 + b.ppu.cycles]

\* a turn of the run loop: args are whether it serviced an NMI, the opcode
\* it fetched, the address of that instruction's operand and what the
\* callback was handed
Step ==
    \E chk \in BOOLEAN :
        /\ fatal = ""
        /\ ~halted
        /\ \E r \in {run_turn(M(chk))} :
               LET nmi == IF ppu.nmi_interrupt # None THEN 1 ELSE 0
                   dots == (r.bus.cycles - bus.cycles) * 3
               IN  Commit(r, "step", <<nmi, r.ir, r.ea, r.seen>>, dots,
                          r.bus.callbacks > bus.callbacks)

NextCpu == Step

\* bytes at and around the ends of the unsigned and the signed range
Edge == {0, 1, 2, 127, 128, 129, 254, 255}

\* LDA #r; CMP #v -- LDX #r; CPX #v -- LDY #r; CPY #v --
\* LDA #v; STA $10; LDA #r; CMP $10
CmpPrograms ==
    {<<169, r, 201, v>> : r \in Byte, v \in Edge}
    \cup {<<162, r, 224, v>> : r \in Edge, v \in Edge}
    \cup {<<160, r, 192, v>> : r \in Edge, v \in Edge}
    \cup {<<169, v, 133, 16, 169, r, 197, 16>> : r \in Edge, v \in Edge}

InitCmp == \E p \in CmpPrograms : \E b \in {Boot(p, 0, 0, 0)} : Booted(b)

SpecCmp == InitCmp /\ [][NextCpu]_vars

\* LDA #a; ADC #b; PHP; PLP -- LDA #v; PHA; PLP; PHP; PLP --
\* LDX #s; TXS; PHP; PLP -- LDX #s; TXS; LDA #v; PHA; LDA #0; PLA --
\* LDX #s; TXS; JSR $8007; BRK; RTS
StackPrograms ==
    {<<169, a, 105, b, 8, 40>> : a \in Edge, b \in Edge}
    \cup {<<169, v, 72, 40, 8, 40>> : v \in Byte}
    \cup {<<162, s, 154, 8, 40>> : s \in Edge}
    \cup {<<162, s, 154, 169, v, 72, 169, 0, 104>> : s \in Edge, v \in {1, 129}}
    \cup {<<162, s, 154, 32, 7, 128, 0, 96>> : s \in Edge}

InitStack == \E p \in StackPrograms : \E b \in {Boot(p, 0, 0, 0)} : Booted(b)

SpecStack == InitStack /\ [][NextCpu]_vars

\* a load -- a load and a transfer, increment or decrement -- LDX #v; TXS; TSX
\* -- LDA #a and an operation of A with #b -- LDA #v and a shift or rotate of
\* A -- LDA #v; STA $10 and an operation on $10 -- LDA #v; PHA; LDA #w; PLA
ZnPrograms ==
    {<<op, v>> : op \in {169, 162, 160}, v \in Byte}
    \cup {<<169, v, op>> : op \in {170, 168}, v \in Edge}
    \cup {<<162, v, op, op>> : op \in {138, 232, 202}, v \in Edge}
    \cup {<<160, v, op, op>> : op \in {152, 200, 136}, v \in Edge}
    \cup {<<162, v, 154, 186>> : v \in Edge}
    \cup {<<169, a, op, b>> : op \in {41, 9, 73, 105, 233, 75}, a \in Edge, b \in Edge}
    \cup {<<169, v, op>> : op \in {10, 74, 42, 106}, v \in Edge}
    \cup {<<169, v, 133, 16, op, 16>> : op \in {230, 198, 6, 70, 38, 102}, v \in Edge}
    \cup {<<169, v, 72, 169, w, 104>> : v \in Edge, w \in Edge}

InitZn == \E p \in ZnPrograms : \E b \in {Boot(p, 0, 0, 0)} : Booted(b)

SpecZn == InitZn /\ [][NextCpu]_vars

\* LDA #v; PHA; PLP; LDX #s; TXS; LDA #$80; STA $2000; INX.  The run starts
\* at dot 288 of line 240: the INX takes the PPU into line 241, and the next
\* turn services the NMI, whose handler is at 0x9080
NmiPrograms ==
    {<<169, v, 72, 40, 162, s, 154, 169, 128, 141, 0, 32, 232>> :
        v \in Edge \cup {65, 195}, s \in {253, 2, 1, 0}}

InitNmi == \E p \in NmiPrograms : \E b \in {Boot(p, 36992, 240, 288)} : Booted(b)

SpecNmi == InitNmi /\ [][NextCpu]_vars

\* LDA #v; STA $2000; LDA #w; STA $2000; LDA $2002; INX; INX --
\* LDA $2002; LDA #v; STA $2000; LDA $2002; INX; INX
\* -- LDY #5; INX; INX
\* with the handler of the NMI at the first INX
ClockPrograms ==
    {<<169, v, 141, 0, 32, 169, w, 141, 0, 32, 173, 2, 32, 232, 232>> :
        v \in {0, 128}, w \in {0, 128}}
    \cup {<<173, 2, 32, 169, v, 141, 0, 32, 173, 2, 32, 232, 232>> :
             v \in {0, 128}}
    \cup {<<160, 5, 232, 232>>}

\* line and dot of the PPU when the run starts: the start of the frame, three
\* places late in line 240, and late in the last line of the frame
ClockStarts == {<<0, 0>>, <<240, 306>>, <<240, 324>>, <<240, 330>>, <<261, 324>>}

MaxResets == 1

\* Cpu::reset called between two turns of the loop, or after the loop
\* returned, and then the loop entered again
Reset ==
    /\ fatal = ""
    /\ hist.resets < MaxResets
    /\ \E r \in {reset([M(TRUE) EXCEPT !.halted = FALSE])} :
           Commit(r, "reset", <<>>, 0, FALSE)

InitClock ==
    \E p \in ClockPrograms, s \in ClockStarts :
        \E b \in {Boot(p, 32768 + Len(p) - 2, s[1], s[2])} : Booted(b)

NextClock == Step \/ Reset

SpecClock == InitClock /\ [][NextClock]_vars

\* LDA #v; BRK -- LDA $10; BRK with v in the cell 0x0010 of the RAM
LdaImmediate(v) == Boot(<<169, v, 0>>, 0, 0, 0)
LdaZeroPage(v) == cpu_mem_write(Boot(<<165, 16, 0>>, 0, 0, 0), 16, v)

InitLda == \E v \in Byte : \E b \in {LdaImmediate(v), LdaZeroPage(v)} : Booted(b)

\* LDX #1; DEX; DEY; BRK in the RAM at 0x0064, the run starting there with
\* A, X and Y set by hand and without a reset
TraceRegs == {0, 1, 2, 3, 255}
TraceProgram == <<162, 1, 202, 136, 0>>

TraceStart(a, x, y) ==
    [cpu |-> [cpu_new EXCEPT !.pc = 100, !.a = a, !.x = x, !.y = y],
     bus |-> [bus_new(EmptyArr, 32768) EXCEPT
                  !.cpu_vram = Load(EmptyArr, 100, TraceProgram)],
     ppu |-> ppu_new(EmptyArr, 8192, "Vertical"),
     fatal |-> "", halted |-> FALSE, checked |-> TRUE,
     ret |-> 0, ea |-> 0, ir |-> 0, seen |-> <<>>,
           tracing |-> FALSE]

InitTrace ==
    \E a \in TraceRegs, x \in TraceRegs, y \in TraceRegs :
        \E b \in {TraceStart(a, x, y)} : Booted(b)

SpecTrace == InitTrace /\ [][NextCpu]_vars

\* LDA #f; PHA; PLP; LDA #a; ADC #m; SBC #m: the PLP leaves Carry = bit 0 of
\* f and Decimal = bit 3 of f; the SBC is 0xE9, or the second encoding 0xEB
AdcSbcPrograms ==
    {<<169, f, 72, 40, 169, a, 105, m, 233, m>> :
        f \in {0, 1, 8, 9}, a \in Byte, m \in Edge}
    \cup {<<169, f, 72, 40, 169, a, 105, m, 235, m>> :
        f \in {0, 1}, a \in Edge, m \in Edge}

InitAdcSbc == \E p \in AdcSbcPrograms : \E b \in {Boot(p, 0, 0, 0)} : Booted(b)

SpecAdcSbc == InitAdcSbc /\ [][NextCpu]_vars

\* LDX #s; TXS; k times INX; then JSR t or JMP t at p = 0x8003 + k, two INX
\* after it, and at t an RTS (for the JSR) or an INX (for the JMP), unless t
\* is inside the jump itself
JumpProgram(s, k, op, t) ==
    LET at == 3 + k
        to == t - 32768
        n == IF to + 1 > at + 5 THEN to + 1 ELSE at + 5
    IN  [i \in 1..n |->
            CASE i = 1 -> 162
              [] i = 2 -> s
              [] i = 3 -> 154
              [] i > 3 /\ i <= at -> 232
              [] i = at + 1 -> op
              [] i = at + 2 -> t % 256
              [] i = at + 3 -> t \div 256
              [] i > at + 3 /\ i = to + 1 -> IF op = 32 THEN 96 ELSE 232
              [] i \in {at + 4, at + 5} /\ i # to + 1 -> 232
              [] OTHER -> 0]

JumpPrograms ==
    {JumpProgram(s, k, op, 32768 + 3 + k + d) :
        s \in {253, 1, 0}, k \in {0, 1}, op \in {32, 76}, d \in {1, 3, 4}}
    \cup {JumpProgram(s, k, op, t) :
        s \in {253, 1, 0}, k \in {0, 1}, op \in {32, 76},
        t \in {32768 + 16, 32768 + 255, 32768 + 256}}

InitJump == \E p \in JumpPrograms : \E b \in {Boot(p, 0, 0, 0)} : Booted(b)

SpecJump == InitJump /\ [][NextCpu]_vars

\* LDA #v; STA $2000; LDA #w; STA $2000; INX; INX with the handler of the NMI
\* at the first INX -- LDX #s; TXS; the pushes of 0x80, 0x0D and f and an RTI
\* that so continues at 0x800D with the status f; LDA #$80; STA $2000; INX;
\* INX; BRK with the handler of the NMI an RTI after the BRK
RaisePrograms ==
    {<<169, v, 141, 0, 32, 169, w, 141, 0, 32, 232, 232>> :
        v \in {0, 128}, w \in {0, 128}}
    \cup {<<162, s, 154, 169, 128, 72, 169, 13, 72, 169, f, 72, 64,
            169, 128, 141, 0, 32, 232, 232, 0, 64, 0>> :
             s \in {253, 2, 1, 0}, f \in {0, 4, 75, 255}}

\* line and dot of the PPU when the run starts: late in line 240, in the
\* vblank lines, and late in line 261, the last of the frame
RaiseStarts ==
    {<<240, 318>>, <<240, 324>>, <<241, 0>>, <<250, 100>>,
     <<261, 300>>, <<261, 324>>, <<261, 330>>}

\* the machine when the PPU has gone through the frame to line and dot with
\* the NMI disabled and the status register not read: in lines 241 to 261 the
\* vblank flag is set
BootInFrame(code, nmi, line, dot) ==
    [Boot(code, nmi, line, dot) EXCEPT
        !.ppu.stat = IF line >= 241
                     THEN stat_set_vblank_status(@, TRUE) ELSE @]

InitRaise ==
    \E p \in RaisePrograms, s \in RaiseStarts :
        \E b \in {BootInFrame(p, 32768 + Len(p) - 2, s[1], s[2])} : Booted(b)

SpecRaise == InitRaise /\ [][NextCpu]_vars

\* BPL, BMI, BVC, BVS, BCC, BCS, BNE, BEQ
Branches == {16, 48, 80, 112, 144, 176, 208, 240}

\* LDA #v and a branch with offset byte o
BranchPrograms ==
    {<<169, v, op, o>> : v \in {0, 1, 128}, op \in Branches, o \in Edge}

\* LDA #lo; STA b; LDA #hi; STA b + 1; LDY #y; LDA (b),Y
IndirectYPrograms ==
    {<<169, lo, 133, b, 169, 2, 133, Wrap8(b + 1), 160, y, 177, b>> :
        lo \in {64, 255}, b \in {16, 255}, y \in {0, 1, 4}}

InitOperand ==
    \E p \in BranchPrograms \cup IndirectYPrograms :
        \E b \in {Boot(p, 0, 0, 0)} : Booted(b)

SpecOperand == InitOperand /\ [][NextCpu]_vars

\* LDA $2002; LDA #v; STA first; LDA #w; STA second, where first and second
\* are 0x2005 and 0x2006 in either order
LatchPrograms ==
    {<<173, 2, 32, 169, v, 141, r, 32, 169, w, 141, 11 - r, 32>> :
        v \in Edge, w \in Edge, r \in {5, 6}}

InitLatch == \E p \in LatchPrograms : \E b \in {Boot(p, 0, 0, 0)} : Booted(b)

SpecLatch == InitLatch /\ [][NextCpu]_vars

\* a turn of the run loop with trace as the callback
StepTraced ==
    \E chk \in BOOLEAN :
        /\ fatal = ""
        /\ ~halted
        /\ \E r \in {run_turn([M(chk) EXCEPT !.tracing = TRUE])} :
               LET nmi == IF ppu.nmi_interrupt # None THEN 1 ELSE 0
                   dots == (r.bus.cycles - bus.cycles) * 3
               IN  Commit(r, "step", <<nmi, r.ir, r.ea, r.seen>>, dots,
                          r.bus.callbacks > bus.callbacks)

\* LDA #v; STA $10; LDA $10 -- LDA $2002; INX -- LDA $2007; INX, run with
\* trace as the callback from the start of a frame or in its vblank
TracedPrograms ==
    {<<169, v, 133, 16, 165, 16>> : v \in 0..31}
    \cup {<<173, r, 32, 232>> : r \in {2, 7}}

InitTraced ==
    \E p \in TracedPrograms, line \in {0, 241} :
        \E b \in {BootInFrame(p, 0, line, 0)} : Booted(b)

SpecTraced == InitTraced /\ [][StepTraced]_vars

\* the data port on a cartridge whose header asks for four screens
InitFour ==
    /\ cpu = cpu_new
    /\ bus = bus_new(EmptyArr, 32768)
    /\ ppu = ppu_new(PortChr, 8192, "FourScreen")
    /\ fatal = ""
    /\ halted = FALSE
    /\ last = last_new
    /\ hist = hist_new

SpecFour == InitFour /\ [][NextPort]_vars

SpecLda == InitLda /\ [][NextCpu]_vars

\* the byte a read of addr finds in RAM or in PRG ROM
MemAt(b, addr) ==
    IF addr <= RAM_MIRROR_END THEN ArrGet(b.cpu_vram, addr % 2048)
    ELSE ArrGet(b.prg_rom, addr - PRG_ROM)

IsStep(l) == l.op = "step"

CmpOps == {201, 197, 213, 205, 221, 217, 193, 209}
CpxOps == {224, 228, 236}
CpyOps == {192, 196, 204}

\* C1: a compare of register r with operand m leaves A, X and Y alone and
\* sets Carry iff r >= m (unsigned), Zero iff r = m, and Negative to bit 7
\* of (r - m) mod 256.
C1_CompareFlags ==
    [][(IsStep(last') /\ fatal' = ""
            /\ last'.args[2] \in CmpOps \cup CpxOps \cup CpyOps) =>
        LET op == last'.args[2]
            r == IF op \in CmpOps THEN cpu.a ELSE IF op \in CpxOps THEN cpu.x ELSE cpu.y
            mm == MemAt(bus, last'.args[3])
        IN  /\ cpu'.a = cpu.a /\ cpu'.x = cpu.x /\ cpu'.y = cpu.y
            /\ Bit(cpu'.stat, 0) <=> (r >= mm)
            /\ Bit(cpu'.stat, 1) <=> (r = mm)
            /\ Bit(cpu'.stat, 7) <=> ((r - mm) % 256 >= 128)]_vars

\* C2: PHP followed by PLP leaves the status it found with BREAK cleared and
\* BREAK2 set, and the stack pointer where it was; the byte PHP pushed, at
\* that stack pointer, has both B bits set.
C2_PhpPlpRoundTrip ==
    [][(IsStep(last) /\ last.args[2] = 8 /\ IsStep(last') /\ last'.args[2] = 40
            /\ fatal' = "") =>
        /\ cpu'.sp = Wrap8(cpu.sp + 1)
        /\ ArrGet(bus'.cpu_vram, STACK_BASE + cpu'.sp) = BitOr(cpu.stat, 48)
        /\ cpu'.stat = BitOr(BitAnd(cpu.stat, 255 - 16), 32)
        /\ ~Bit(cpu'.stat, 4)
        /\ Bit(cpu'.stat, 5)]_vars

ResultInA ==
    {169, 165, 181, 173, 189, 185, 161, 177, 138, 152, 104}
    \cup {41, 37, 53, 45, 61, 57, 33, 49} \cup {9, 5, 21, 13, 29, 25, 1, 17}
    \cup {73, 69, 85, 77, 93, 89, 65, 81}
    \cup {105, 101, 117, 109, 125, 121, 97, 113}
    \cup {233, 229, 245, 237, 253, 249, 225, 241} \cup {10, 74, 42, 106}
ResultInX == {162, 166, 182, 174, 190, 170, 186, 232, 202}
ResultInY == {160, 164, 180, 172, 188, 168, 200, 136}
ResultInMemory ==
    {230, 246, 238, 254} \cup {198, 214, 206, 222} \cup {6, 22, 14, 30}
    \cup {70, 86, 78, 94} \cup {38, 54, 46, 62} \cup {102, 118, 110, 126}

\* C3: after a load, transfer, increment, decrement, AND, ORA, EOR, ADC, SBC,
\* shift, rotate or PLA, Zero is set iff the 8-bit result is 0 and Negative
\* iff its bit 7 is set.
C3_ZeroNegative ==
    [][(IsStep(last') /\ fatal' = ""
            /\ last'.args[2] \in
                 ResultInA \cup ResultInX \cup ResultInY \cup ResultInMemory) =>
        LET op == last'.args[2]
            result == CASE op \in ResultInA -> cpu'.a
                        [] op \in ResultInX -> cpu'.x
                        [] op \in ResultInY -> cpu'.y
                        [] OTHER -> MemAt(bus', last'.args[3])
        IN  /\ Bit(cpu'.stat, 1) <=> (result = 0)
            /\ Bit(cpu'.stat, 7) <=> (result >= 128)]_vars

\* C4: servicing an NMI pushes the PC, high byte first, then the status
\* with BREAK clear and BREAK2 set, sets INTERRUPT_DISABLE, gives the bus 2
\* cycles and loads the PC from 0xFFFA/0xFFFB; SP ends 3 lower, modulo 256.
\* (Seen where the handler starts with BRK, which the same turn fetches.)
C4_NmiService ==
    [][(IsStep(last') /\ fatal' = "" /\ last'.args[1] = 1 /\ last'.args[2] = 0) =>
        LET pushed(i) == ArrGet(bus'.cpu_vram, STACK_BASE + Wrap8(cpu.sp - i))
            vector == MemAt(bus, 65531) * 256 + MemAt(bus, 65530)
        IN  /\ pushed(0) = cpu.pc \div 256
            /\ pushed(1) = cpu.pc % 256
            /\ pushed(2) = BitOr(BitAnd(cpu.stat, 255 - 16), 32)
            /\ Bit(cpu'.stat, 2)
            /\ bus'.cycles = bus.cycles + 2
            /\ cpu'.pc = Wrap16(vector + 1)
            /\ cpu'.sp = Wrap8(cpu.sp - 3)]_vars

(***************************************************************************)
(* Properties.                                                             *)
(***************************************************************************)
InVblank == stat_is_in_vblank(ppu.stat)

\* C5: from scanline 0, dot 0, once the cycles given to Ppu::tick sum to
\* exactly 341 * 262 the tick has returned frame-complete exactly once, on the
\* last call, and never before; the vblank bit was set exactly once, on
\* reaching scanline 241, and is clear after the wrap; the PPU is back at
\* scanline 0, dot 0.
C5_FrameAfterExactCycles ==
    /\ hist.elapsed < FrameCycles =>
          /\ hist.frames = 0
          /\ hist.vblanks = (IF ppu.scanline >= 241 THEN 1 ELSE 0)
    /\ hist.elapsed = FrameCycles =>
          /\ hist.frames = 1
          /\ hist.vblanks = 1
          /\ ~InVblank
          /\ ppu.scanline = 0
          /\ ppu.cycles = 0
          /\ (last.op = "tick" => last.ret = TRUE)

C5_Witness ==
    /\ hist.elapsed = FrameCycles
    /\ last.op = "tick"
    /\ last.ret = TRUE
    /\ hist.frames = 1
    /\ hist.vblanks = 1

\* C6: the vblank bit becomes set exactly when the scanline counter becomes
\* 241, and then nmi_interrupt is raised iff CTRL bit 7 is set; a scanline
\* counter leaving 261 wraps to 0 with vblank and sprite-zero-hit clear, and
\* that tick, and no other, returns frame-complete.
C6_TickEdges ==
    [][/\ (~InVblank /\ stat_is_in_vblank(ppu'.stat))
            <=> (ppu.scanline # 241 /\ ppu'.scanline = 241)
       /\ (ppu.scanline # 241 /\ ppu'.scanline = 241) =>
            ((ppu'.nmi_interrupt = Some(1)) <=> ctrl_generate_vbalnk_nmi(ppu'.ctrl))
       /\ ppu'.scanline < 262
       /\ (ppu.scanline = 261 /\ ppu'.scanline # 261) =>
            /\ ppu'.scanline = 0
            /\ ~stat_is_in_vblank(ppu'.stat)
            /\ ~Bit(ppu'.stat, 6)
       /\ (last'.op = "tick" /\ last'.ret = TRUE)
            <=> (ppu.scanline = 261 /\ ppu'.scanline = 0)
      ]_vars

C6_Witness ==
    /\ last.op = "tick"
    /\ ppu.scanline = 241
    /\ ppu.cycles < 255
    /\ InVblank
    /\ ctrl_generate_vbalnk_nmi(ppu.ctrl)
    /\ ppu.nmi_interrupt = Some(1)

IsWrite(l, a) == l.op = "mem_write" /\ l.args[1] = a
IsRead(l, a) == l.op = "mem_read" /\ l.args[1] = a

\* C7: a write to CTRL (0x2000) raises nmi_interrupt when the vblank bit is
\* set and bit 7 goes from 0 before the write to 1 after it; any other CTRL
\* write leaves nmi_interrupt as it was.
C7_CtrlWriteNmi ==
    [][IsWrite(last', 8192) =>
          /\ ppu'.ctrl = last'.args[2]
          /\ ppu'.nmi_interrupt =
                IF InVblank /\ ~Bit(ppu.ctrl, 7) /\ Bit(last'.args[2], 7)
                THEN Some(1) ELSE ppu.nmi_interrupt
      ]_vars

C7_Witness ==
    /\ IsWrite(last, 8192)
    /\ InVblank
    /\ Bit(ppu.ctrl, 7)
    /\ ppu.nmi_interrupt = Some(1)
    /\ ppu.scanline = 261

\* C8: the bus makes the frame callback exactly once in a call in which the
\* PPU's scanline counter wraps past 261, and in no other call.
C8_CallbackPerFrame ==
    [][bus'.callbacks =
          bus.callbacks + (IF ppu.scanline = 261 /\ ppu'.scanline = 0 THEN 1 ELSE 0)
      ]_vars

C8_Witness ==
    /\ last.op = "tick"
    /\ bus.callbacks = 1
    /\ ppu.scanline = 0
    /\ hist.frames = 1

\* C9: after a read of 0x2002, whatever the latch was before it, the next two
\* writes h then l to 0x2006 leave the VRAM address ((h << 8) | l) & 0x3FFF.
C9_AddrAfterLatchReset ==
    (hist.since # <<-1>> /\ Len(hist.since) = 3) =>
        addr_get(ppu.addr) = BitAnd(hist.since[2] * 256 + hist.since[3], 16383)

C9_Witness ==
    /\ hist.since # <<-1>>
    /\ Len(hist.since) = 3
    /\ hist.since[1] = 1
    /\ hist.since[2] > 63
    /\ addr_get(ppu.addr) = 16161

\* C10: a read of STATUS (0x2002) returns the register as it was before the
\* read; afterwards bit 7 is clear, bits 6 and 5 are as before, and the
\* address and scroll latches expect a first write; a second read straight
\* after returns bit 7 = 0.
C10_StatusRead ==
    [][/\ IsRead(last', 8194) =>
            /\ last'.ret = ppu.stat
            /\ ~Bit(ppu'.stat, 7)
            /\ Bit(ppu'.stat, 6) = Bit(ppu.stat, 6)
            /\ Bit(ppu'.stat, 5) = Bit(ppu.stat, 5)
            /\ ppu'.addr.hi_ptr
            /\ ~ppu'.scroll.latch
            /\ ppu'.addr.value0 = ppu.addr.value0
            /\ ppu'.addr.value1 = ppu.addr.value1
       /\ (IsRead(last, 8194) /\ IsRead(last', 8194)) => ~Bit(last'.ret, 7)
      ]_vars

C10_Witness ==
    /\ IsRead(last, 8194)
    /\ Bit(last.ret, 7)
    /\ ~InVblank
    /\ ppu.addr.hi_ptr
    /\ ppu.addr.value1 = 33

(***************************************************************************)
(* The PPU data port.                                                      *)
(***************************************************************************)
\* the VRAM address an access of 0x2007 works on
PortAddr == addr_get(ppu.addr)

\* the byte of the two 1 KiB pages of VRAM that a nametable address stands
\* for: pages A B A B under Vertical mirroring, A A B B under Horizontal
NametableCell(mirroring, a) ==
    LET table == (a - 8192) \div 1024
        page == IF mirroring = "Vertical" THEN table % 2 ELSE table \div 2
    IN  page * 1024 + (a % 1024)

\* C11: under Vertical mirroring 0x2000+k and 0x2800+k are one byte and so
\* are 0x2400+k and 0x2C00+k, under Horizontal mirroring 0x2000+k and 0x2400+k
\* are one byte and so are 0x2800+k and 0x2C00+k, and the two pages are
\* apart: a write of 0x2007 at a nametable address stores its byte in that
\* byte of its page and in no other, and a read of 0x2007 there loads the
\* read buffer from that byte.
C11_NametableMirroring ==
    [][/\ IsWrite(last', 8199) /\ PortAddr \in 8192..12287
          => /\ fatal' = ""
             /\ ppu'.vram = ArrSet(ppu.vram,
                                   NametableCell(ppu.mirroring, PortAddr),
                                   last'.args[2])
       /\ IsRead(last', 8199) /\ PortAddr \in 8192..12287
          => /\ fatal' = ""
             /\ ppu'.internal_buf
                = ArrGet(ppu.vram, NametableCell(ppu.mirroring, PortAddr))
             /\ ppu'.vram = ppu.vram]_vars

\* a byte written at 0x23FF under Vertical mirroring comes back from the
\* second read after the address was set to 0x2BFF
C11_Witness ==
    /\ ppu.mirroring = "Vertical"
    /\ hist.wrote = 9215
    /\ IsRead(last, 8199) /\ last.ret = 102
    /\ hist.port = 2 /\ PortAddr = 11265
    /\ hist.since = <<-1>>

\* the byte the PPU address space holds at an address below the palettes:
\* CHR ROM, a nametable, or the nametable that 0x3000-0x3EFF mirrors
StoredAt(a) ==
    IF a <= 8191 THEN ArrGet(ppu.chr_rom, a)
    ELSE IF a <= 12287 THEN ArrGet(ppu.vram, NametableCell(ppu.mirroring, a))
    ELSE ArrGet(ppu.vram, NametableCell(ppu.mirroring, a - 4096))

\* C12: a read of 0x2007 at a VRAM address below 0x3F00 (pattern tables,
\* nametables, and their mirror 0x3000-0x3EFF) returns the byte the read
\* buffer held before the read and loads the buffer with the byte stored at
\* that address.
C12_BufferedRead ==
    [][IsRead(last', 8199) /\ PortAddr < 16128
       => /\ fatal' = ""
          /\ last'.ret = ppu.internal_buf
          /\ ppu'.internal_buf = StoredAt(PortAddr)]_vars

\* the entry of the 32-byte palette table that a palette address stands for
PaletteEntry(a) ==
    LET i == (a - 16128) % 32
    IN  IF i \in {16, 20, 24, 28} THEN i - 16 ELSE i

\* what bit 2 of CTRL makes an access of 0x2007 add to the VRAM address
PortStep == IF Bit(ppu.ctrl, 2) THEN 32 ELSE 1

\* C13: a read of 0x2007 at a VRAM address in 0x3F00-0x3FFF returns the
\* palette byte of that address at once, not the read buffer, ends in no
\* fatal error and leaves the VRAM address incremented.
C13_PaletteRead ==
    [][IsRead(last', 8199) /\ PortAddr \in 16128..16383
       => /\ fatal' = ""
          /\ last'.ret = ArrGet(ppu.palette_table, PaletteEntry(PortAddr))
          /\ addr_get(ppu'.addr) = (PortAddr + PortStep) % 16384]_vars

\* the palette entries 0x00, 0x04, 0x08 and 0x0C
PaletteBases == {16128, 16132, 16136, 16140}

\* C14: a write of 0x2007 at VRAM address 0x3F10, 0x3F14, 0x3F18 or 0x3F1C
\* is no error and stores its byte in palette entry 0x00, 0x04, 0x08 or 0x0C,
\* and a read of 0x2007 at the mirror or at the base address returns the
\* byte of that one entry.
C14_PaletteMirrors ==
    [][/\ IsWrite(last', 8199) /\ PortAddr \in PaletteMirrors
          => /\ fatal' = ""
             /\ ppu'.palette_table
                = ArrSet(ppu.palette_table, PortAddr - 16144, last'.args[2])
       /\ IsRead(last', 8199) /\ PortAddr \in PaletteMirrors
          => /\ fatal' = ""
             /\ last'.ret = ArrGet(ppu.palette_table, PortAddr - 16144)
       /\ IsRead(last', 8199) /\ PortAddr \in PaletteBases
          => /\ fatal' = ""
             /\ last'.ret = ArrGet(ppu.palette_table, PortAddr - 16128)]_vars

\* the byte written at 0x3F1C comes back from a read at 0x3F0C
C14_Witness ==
    /\ hist.wrote = 16156
    /\ IsRead(last, 8199) /\ last.ret = 102
    /\ hist.port = 1 /\ PortAddr = 16141
    /\ fatal = ""

\* C15: whatever is written to 0x2006 and however often 0x2007 is read or
\* written with an increment of 1 or of 32, the VRAM address is at most
\* 0x3FFF, and an access of 0x2007 that increments it leaves the sum masked
\* to 14 bits.
C15_AddrWithin14Bits ==
    /\ [](PortAddr <= 16383)
    /\ [][IsRead(last', 8199) \/ (IsWrite(last', 8199) /\ fatal' = "")
          => addr_get(ppu'.addr) = (PortAddr + PortStep) % 16384]_vars

\* a read of 0x2007 at 0x3FFF with the increment of 32 left the address 0x001F
C15_Witness ==
    /\ IsRead(last, 8199)
    /\ hist.port = 1
    /\ Bit(ppu.ctrl, 2)
    /\ PortAddr = 31

\* the address is the PPU status register or one of its mirrors
IsStatus(a) == a \in 8192..PPU_REGISTERS_MIRROR_END /\ a % 8 = 2

\* C20: a write by the CPU to program ROM (0x8000-0xFFFF) or to the PPU
\* status register (0x2002 or an address of 0x2008-0x3FFF that mirrors it)
\* ends in a fatal error and changes nothing of RAM, ROM or the PPU.
C20_ReadOnlyWrites ==
    [][last'.op = "mem_write"
       /\ (last'.args[1] >= 32768 \/ IsStatus(last'.args[1]))
       => /\ fatal' # ""
          /\ bus' = bus
          /\ ppu' = ppu]_vars

\* a write to 0x3FFA, a mirror of the status register, was fatal in vblank
\* with CTRL written and the VRAM address half set
C20_Witness ==
    /\ fatal # ""
    /\ IsWrite(last, 16378)
    /\ InVblank
    /\ ppu.ctrl = 128
    /\ ~ppu.addr.hi_ptr

(***************************************************************************)
(* The clocks of the CPU and the PPU, and reset.                           *)
(***************************************************************************)
\* C16: after any sequence of turns of the run loop, NMI services among
\* them, the PPU cycles elapsed (completed frames * 262 * 341 + scanline *
\* 341 + dot) are exactly 3 times the CPU cycles the bus has accumulated.
C16_ThreePpuCyclesPerCpuCycle ==
    fatal = ""
    => bus.callbacks * FrameCycles + ppu.scanline * 341 + ppu.cycles
       = 3 * bus.cycles

\* a turn serviced an NMI and ran the first instruction of its handler
C16_Witness ==
    /\ IsStep(last) /\ last.args[1] = 1
    /\ fatal = "" /\ ~halted
    /\ ppu.scanline = 241

\* C17: in a turn of the run loop the writes of the instruction take effect
\* before the PPU is advanced for its cycles, and the instruction sees
\* nothing of that advance: when the advance enters line 241 the NMI is
\* raised if and only if bit 7 of CTRL is set after the instruction, and an
\* LDA of 0x2002 loads the status register as it was before the turn.
C17_InstructionBeforeTick ==
    [][IsStep(last') /\ last'.args[1] = 0 /\ fatal' = "" /\ ~halted'
       => /\ ppu.scanline = 240 /\ ppu'.scanline = 241
             => (ppu'.nmi_interrupt # None <=> Bit(ppu'.ctrl, 7))
          /\ last'.args[2] = 173 /\ last'.args[3] = 8194
             => cpu'.a = ppu.stat]_vars

\* STA $2000 cleared bit 7 of CTRL in the turn that entered line 241, and
\* no NMI was raised
C17_Witness ==
    /\ IsStep(last) /\ last.args[1] = 0 /\ last.args[2] = 141
    /\ fatal = "" /\ ~halted
    /\ ppu.scanline = 241 /\ ppu.cycles < 12
    /\ cpu.x = 0 /\ hist.resets = 0
    /\ MemAt(bus, 32769) = 128
    /\ ppu.ctrl = 0 /\ ppu.nmi_interrupt = None

\* C18: Cpu::reset, from any state of the CPU, sets PC to the little-endian
\* word at 0xFFFC/0xFFFD, SP to 0xFD and the status register to 0b00100100.
C18_Reset ==
    [][last'.op = "reset"
       => /\ cpu'.pc = MemAt(bus, 65532) + 256 * MemAt(bus, 65533)
          /\ cpu'.sp = 253
          /\ cpu'.stat = 36]_vars

\* reset after an NMI was serviced: SP was 0xFA and Interrupt-Disable set,
\* the PC in the handler
C18_Witness ==
    /\ last.op = "reset"
    /\ MemAt(bus, 509) = 128
    /\ cpu.pc = 32768 /\ cpu.sp = 253 /\ cpu.stat = 36

\* the opcodes that have an arm in the match of the run loop
Dispatched == 0..255

\* C19: every opcode the dispatcher implements has exactly one descriptor
\* in the instruction table, so no fetch of one ends in the fatal error of
\* an unrecognized opcode.
C19_OpcodesRecognized ==
    [][IsStep(last') /\ last'.args[2] \in Dispatched
       => /\ Cardinality({i \in DOMAIN CPU_INSTRUCTIONS :
                            CPU_INSTRUCTIONS[i].opcode = last'.args[2]}) = 1
          /\ fatal' # "opcode is not recognized"]_vars

(***************************************************************************)
(* Reads of the bus that read nothing.                                     *)
(***************************************************************************)
\* the address is a write-only PPU register or a mirror of one, or lies in
\* 0x4000-0x7FFF
IsQuiet(a) ==
    \/ a \in 8192..PPU_REGISTERS_MIRROR_END /\ a % 8 \in {0, 1, 3, 5, 6}
    \/ a \in 16384..32767

\* C21: a read by the CPU of a write-only PPU register (0x2000, 0x2001,
\* 0x2003, 0x2005, 0x2006 or a mirror of one), of 0x4000-0x4017 or of an
\* unmapped address in 0x4018-0x7FFF returns 0, is not fatal, and leaves RAM
\* and the whole PPU (registers, latches, read buffer, VRAM address) as
\* they were.
C21_QuietReads ==
    [][last'.op = "mem_read" /\ IsQuiet(last'.args[1])
       => /\ last'.ret = 0
          /\ fatal' = ""
          /\ bus' = bus
          /\ ppu' = ppu]_vars

\* 0x3FFE, a mirror of the address register, was read with the high byte of
\* an address written, the read buffer loaded and the address incremented
C21_Witness ==
    /\ IsRead(last, 16382)
    /\ fatal = ""
    /\ ~ppu.addr.hi_ptr
    /\ ppu.internal_buf = 34
    /\ ppu.addr.value1 = 0

\* the byte the LDA at 0x8000 is to load
LdaOperand ==
    IF MemAt(bus, 32768) = 169 THEN MemAt(bus, 32769)
    ELSE MemAt(bus, MemAt(bus, 32769))

\* C22: a program of LDA (immediate v, or zero page with v in the cell) and
\* BRK run from 0x8000 ends at the BRK, with A = v, Zero = (v = 0) and
\* Negative = bit 7 of v: the first turn is the LDA's, the second the BRK's,
\* which returns from the loop, and no turn panics.
C22_LdaThenBrk ==
    /\ [](/\ fatal = ""
          /\ ~halted => cpu.pc \in {32768, 32770}
          /\ halted =>
                /\ last.args[2] = 0
                /\ cpu.a = LdaOperand
                /\ Bit(cpu.stat, 1) = (LdaOperand = 0)
                /\ Bit(cpu.stat, 7) = Bit(LdaOperand, 7))
    /\ [][/\ cpu.pc = 32768 => last'.args[2] \in {169, 165} /\ cpu'.pc = 32770
          /\ cpu.pc = 32770 => halted'
         ]_vars

C22_Witness ==
    /\ halted
    /\ MemAt(bus, 32768) = 165
    /\ cpu.a = 128
    /\ Bit(cpu.stat, 7)
    /\ ~Bit(cpu.stat, 1)
Seen(pc, a, x, y, stat, sp) ==
    <<[pc |-> pc, sp |-> sp, a |-> a, x |-> x, y |-> y, stat |-> stat]>>

\* C23: the callback is made exactly once in a turn and is handed the CPU as
\* it is before the turn's instruction runs; in the run of A2 01 CA 88 00 at
\* 0x64 with A = 1, X = 2, Y = 3 the first three calls are handed
\* (PC, A, X, Y, P, SP) = (0x64, 1, 2, 3, 0x24, 0xFD), (0x66, 1, 1, 3, 0x24,
\* 0xFD) and (0x67, 1, 0, 3, 0x26, 0xFD).
C23_CallbackBeforeStep ==
    [][IsStep(last') =>
          /\ last'.args[4] = <<cpu>>
          /\ (cpu.a = 1 /\ cpu.y = 3 /\ hist.elapsed = 0 /\ cpu.x = 2)
                => last'.args[4] = Seen(100, 1, 2, 3, 36, 253)
          /\ (cpu.a = 1 /\ cpu.y = 3 /\ hist.elapsed = 6)
                => last'.args[4] = Seen(102, 1, 1, 3, 36, 253)
          /\ (cpu.a = 1 /\ cpu.y = 3 /\ hist.elapsed = 12)
                => last'.args[4] = Seen(103, 1, 0, 3, 38, 253)
      ]_vars

C23_Witness ==
    /\ IsStep(last)
    /\ last.args[2] = 136
    /\ last.args[4] = Seen(103, 1, 0, 3, 38, 253)
    /\ cpu.y = 2
    /\ hist.elapsed = 18
\* a byte read as a signed number, and whether a signed result leaves the byte
Signed8(v) == IF v >= 128 THEN v - 256 ELSE v
Overflows(v) == v < -128 \/ v > 127
CarryBit(stat) == IF Bit(stat, 0) THEN 1 ELSE 0

\* the program's a, m and c, and the turns of its ADC and its SBC
PairA == MemAt(bus, 32773)
PairM == MemAt(bus, 32775)
PairC == MemAt(bus, 32769) % 2
IsAdc == IsStep(last') /\ last'.args[2] = 105 /\ cpu.pc = 32774
IsSbc == IsStep(last') /\ last'.args[2] = 233 /\ cpu.pc = 32776
AdcOverflowed == Overflows(Signed8(PairA) + Signed8(PairM) + PairC)
SbcOverflowed == Overflows(Signed8(cpu.a) - Signed8(PairM) - (1 - CarryBit(cpu.stat)))

\* C24 as stated: with A = a and Carry = c, ADC m and then SBC m, the carry
\* of the ADC going into the SBC, brings A back to a and leaves Overflow
\* clear when neither of the two overflowed in signed arithmetic.
C24_AdcSbcRoundTrip ==
    [][IsSbc =>
          /\ cpu'.a = PairA
          /\ (~AdcOverflowed /\ ~SbcOverflowed) => ~Bit(cpu'.stat, 6)
      ]_vars

\* C24, amended: the ADC leaves A = (a + m + c) mod 256 and Carry = c1, the
\* carry out of that sum; the SBC then leaves A = (a + c + c1 - 1) mod 256,
\* which is a exactly when one of c and c1 is set and the other clear; after
\* each of the two Overflow is set exactly when it overflowed in signed
\* arithmetic.
C24_AdcSbcPair ==
    [][/\ IsAdc =>
             /\ cpu.a = PairA /\ CarryBit(cpu.stat) = PairC
             /\ cpu'.a = (PairA + PairM + PairC) % 256
             /\ CarryBit(cpu'.stat) = (PairA + PairM + PairC) \div 256
             /\ Bit(cpu'.stat, 6) = AdcOverflowed
       /\ IsSbc =>
             /\ cpu'.a = (PairA + PairC + CarryBit(cpu.stat) + 255) % 256
             /\ (cpu'.a = PairA) = (PairC + CarryBit(cpu.stat) = 1)
             /\ Bit(cpu'.stat, 6) = SbcOverflowed
      ]_vars

C24_Witness ==
    /\ IsStep(last) /\ last.args[2] = 233
    /\ PairA = 128 /\ PairM = 129 /\ PairC = 0
    /\ cpu.a = 128
    /\ Bit(cpu.stat, 6)
\* the 16-bit value in the cells at addr and addr + 1 of bus b
Word(b, addr) == MemAt(b, addr) + 256 * MemAt(b, addr + 1)
StackCell(b, sp) == MemAt(b, STACK_BASE + sp)
IsJsr == IsStep(last') /\ last'.args[2] = 32 /\ fatal' = ""
IsRts == IsStep(last') /\ last'.args[2] = 96 /\ fatal' = ""

\* C25: a JSR at p pushes p + 2, high byte first, and sets PC to its operand;
\* an RTS pops a value v, low byte first, and sets PC to v + 1; an RTS that
\* follows the JSR at p resumes at p + 3 with SP as it was before the JSR.
C25_JsrRts ==
    [][/\ IsJsr =>
             /\ StackCell(bus', cpu.sp) = (cpu.pc + 2) \div 256
             /\ StackCell(bus', Wrap8(cpu.sp - 1)) = (cpu.pc + 2) % 256
             /\ cpu'.sp = Wrap8(cpu.sp - 2)
             /\ cpu'.pc = Word(bus, cpu.pc + 1)
       /\ IsRts =>
             /\ cpu'.pc = StackCell(bus, Wrap8(cpu.sp + 1))
                            + 256 * StackCell(bus, Wrap8(cpu.sp + 2)) + 1
             /\ cpu'.sp = Wrap8(cpu.sp + 2)
       /\ (IsRts /\ IsStep(last) /\ last.args[2] = 32) =>
             /\ cpu'.pc = last.args[4][1].pc + 3
             /\ cpu'.sp = last.args[4][1].sp
      ]_vars
\* the opcodes that set PC themselves: the branches, JMP, JSR, RTS, RTI, BRK
ControlTransfers == {16, 48, 80, 112, 144, 176, 208, 240, 76, 108, 32, 96, 64, 0}

\* C27: after a turn whose instruction is no control transfer, PC is the PC
\* the opcode was fetched at plus the length the table declares; after a
\* JMP absolute or a JSR to t, PC is t, whatever t is -- the address of the
\* instruction's own first operand byte included.
C27_PcAfterStep ==
    [][(IsStep(last') /\ fatal' = "") =>
          LET op == last'.args[2]
              at == last'.args[4][1].pc
          IN  /\ op \notin ControlTransfers =>
                    cpu'.pc = Wrap16(at + INSTRUCTION_MAP[op].len)
              /\ op \in {76, 32} => cpu'.pc = Word(bus, at + 1)
      ]_vars
\* the turn's instruction is a store to 0x2000 that sets bit 7 of the control
\* register during vblank; the turn's tick takes the PPU into line 241 with
\* bit 7 of the control register set
RaisedByWrite ==
    /\ last'.args[2] = 141 /\ Word(bus, last'.args[4][1].pc + 1) = 8192
    /\ InVblank /\ ~Bit(ppu.ctrl, 7) /\ Bit(cpu.a, 7)
RaisedByTick ==
    ppu.scanline = 240 /\ ppu'.scanline = 241 /\ Bit(ppu'.ctrl, 7)

\* C26: an NMI requested during a turn, by the tick reaching line 241 or by
\* a write of the control register during vblank, is pending when the turn
\* ends; a pending request is serviced at the start of the next turn, before
\* the callback and the fetch of the opcode, and taking it clears it.
C26_NmiServicedOnce ==
    [][(IsStep(last') /\ fatal' = "") =>
          /\ (RaisedByWrite \/ RaisedByTick) => ppu'.nmi_interrupt # None
          /\ ppu.nmi_interrupt # None =>
                /\ last'.args[4][1].pc = Word(bus, 65530)
                /\ last'.args[4][1].sp = Wrap8(cpu.sp - 3)
                /\ last'.args[2] = MemAt(bus, Word(bus, 65530))
                /\ (RaisedByWrite \/ RaisedByTick) \/ ppu'.nmi_interrupt = None
          /\ ppu.nmi_interrupt = None => last'.args[4] = <<cpu>>
      ]_vars
\* whether the condition of branch opcode op holds of status register stat
BranchTaken(op, stat) ==
    CASE op = 16 -> ~Bit(stat, 7)
      [] op = 48 -> Bit(stat, 7)
      [] op = 80 -> ~Bit(stat, 6)
      [] op = 112 -> Bit(stat, 6)
      [] op = 144 -> ~Bit(stat, 0)
      [] op = 176 -> Bit(stat, 0)
      [] op = 208 -> ~Bit(stat, 1)
      [] op = 240 -> Bit(stat, 1)

\* C28: a turn whose opcode, at p, is a branch with offset byte o leaves
\* PC = (p + 2 + signed8(o)) mod 2^16 when the branch's condition holds, and
\* PC = p + 2 when it does not.
C28_BranchTarget ==
    [][(IsStep(last') /\ last'.args[2] \in Branches) =>
          /\ fatal' = ""
          /\ cpu'.pc = IF BranchTaken(last'.args[2], cpu.stat)
                       THEN (cpu.pc + 2 + Signed8(MemAt(bus, cpu.pc + 1)) + 65536) % 65536
                       ELSE Wrap16(cpu.pc + 2)
      ]_vars

\* C29: the effective address of (Indirect),Y with operand byte b is the
\* 16-bit pointer in the zero-page cells b and (b + 1) mod 256, plus Y, in
\* 16 bits.
C29_IndirectY ==
    [][(IsStep(last') /\ last'.args[2] = 177 /\ fatal' = "") =>
          last'.args[3] =
              Wrap16(MemAt(bus, MemAt(bus, cpu.pc + 1))
                     + 256 * MemAt(bus, Wrap8(MemAt(bus, cpu.pc + 1) + 1))
                     + cpu.y)
      ]_vars
\* ASL, LSR, ROL and ROR of the accumulator and of a zero-page cell
ShiftLeft == {10, 6, 42, 38}
ShiftRight == {74, 70, 106, 102}
Rotates == {42, 38, 106, 102}
OnAccumulator == {10, 74, 42, 106}

\* C30: with input byte d, in the accumulator or in memory, ASL and ROL set
\* Carry to bit 7 of d and LSR and ROR set Carry to bit 0 of d; ROL puts the
\* Carry of before at bit 0 of the result, ROR at bit 7.
C30_ShiftCarry ==
    [][(IsStep(last') /\ last'.args[2] \in ShiftLeft \cup ShiftRight) =>
          LET op == last'.args[2]
              cell == MemAt(bus, cpu.pc + 1)
              d == IF op \in OnAccumulator THEN cpu.a ELSE MemAt(bus, cell)
              res == IF op \in OnAccumulator THEN cpu'.a ELSE MemAt(bus', cell)
          IN  /\ fatal' = ""
              /\ Bit(cpu'.stat, 0) = Bit(d, IF op \in ShiftLeft THEN 7 ELSE 0)
              /\ op \in Rotates =>
                    Bit(res, IF op \in ShiftLeft THEN 0 ELSE 7) = Bit(cpu.stat, 0)
      ]_vars

\* C31: for every a, m and carry-in c the ADC leaves A = (a + m + c) mod 256,
\* Carry set exactly when a + m + c >= 256, and Overflow set exactly when
\* (m ^ result) & (result ^ a) & 0x80 is not zero, which is exactly when a
\* and m have the same sign bit and the result's differs; the Decimal flag,
\* set or clear, changes none of this and is left as it was.
PairD == MemAt(bus, 32769) >= 8
AdcSum == PairA + PairM + PairC
C31_Adc ==
    [][IsAdc =>
          /\ cpu.a = PairA /\ CarryBit(cpu.stat) = PairC
          /\ Bit(cpu.stat, 3) = PairD
          /\ fatal' = ""
          /\ cpu'.a = AdcSum % 256
          /\ Bit(cpu'.stat, 0) = (AdcSum >= 256)
          /\ Bit(cpu'.stat, 6) =
                (BitAnd(BitAnd(BitXor(PairM, AdcSum % 256),
                               BitXor(AdcSum % 256, PairA)), 128) # 0)
          /\ Bit(cpu'.stat, 6) =
                (/\ (PairA >= 128) = (PairM >= 128)
                 /\ (AdcSum % 256 >= 128) # (PairA >= 128))
          /\ Bit(cpu'.stat, 3) = PairD
      ]_vars

C31_Witness ==
    /\ IsStep(last) /\ last.args[2] = 105
    /\ MemAt(bus, 32769) = 9 /\ PairA = 127 /\ PairM = 1
    /\ cpu.a = 129
    /\ Bit(cpu.stat, 3) /\ Bit(cpu.stat, 6) /\ ~Bit(cpu.stat, 0)

\* C32: for every a, m and carry-in c, the SBC, in the encoding 0xE9 and in
\* the second encoding 0xEB, runs and leaves the A, Carry, Overflow, Zero
\* and Negative that an ADC of m XOR 0xFF leaves from the same a and c.
SbcOps == {233, 235}
IsSbcOf(ops) == IsStep(last') /\ last'.args[2] \in ops /\ cpu.pc = 32776
ComplementSum == cpu.a + BitXor(PairM, 255) + CarryBit(cpu.stat)
SbcAsAdc(ops) ==
    IsSbcOf(ops) =>
        /\ fatal' = ""
        /\ cpu'.a = ComplementSum % 256
        /\ Bit(cpu'.stat, 0) = (ComplementSum >= 256)
        /\ Bit(cpu'.stat, 6) =
              (BitAnd(BitAnd(BitXor(BitXor(PairM, 255), ComplementSum % 256),
                             BitXor(ComplementSum % 256, cpu.a)), 128) # 0)
        /\ Bit(cpu'.stat, 1) = (ComplementSum % 256 = 0)
        /\ Bit(cpu'.stat, 7) = (ComplementSum % 256 >= 128)
C32_SbcAsAdc == [][SbcAsAdc(SbcOps)]_vars

\* the second of the two stores of a latch program, and the register it is to
SecondStore == IsStep(last') /\ last'.args[2] = 141 /\ cpu.pc = 32778
SecondTo == Word(bus, 32779)

\* C33: 0x2005 and 0x2006 share one toggle: after a read of 0x2002, a write
\* to 0x2005 and then a write to 0x2006, the 0x2006 write is the second of
\* the pair and sets the low byte of the VRAM address, leaving the high byte;
\* and after a read of 0x2002, a write to 0x2006 and then a write to 0x2005,
\* the 0x2005 write is the second of the pair and sets the second scroll
\* byte, leaving the first.
C33_SharedLatch ==
    [][SecondStore =>
          /\ fatal' = ""
          /\ SecondTo = 8198 =>
                /\ ppu'.addr.value1 = cpu.a
                /\ ppu'.addr.value0 = ppu.addr.value0
          /\ SecondTo = 8197 =>
                /\ ppu'.scroll.scroll_y = cpu.a
                /\ ppu'.scroll.scroll_x = ppu.scroll.scroll_x
      ]_vars

\* the machine as the fetch of a turn finds it: after the service of a
\* pending NMI, if there is one
AtFetch ==
    IF ppu.nmi_interrupt # None
    THEN interrupt(poll_nmi_status(M(TRUE)), NMI)
    ELSE M(TRUE)
IsBrk == IsStep(last') /\ last'.args[2] = 0 /\ fatal' = ""

\* C34: a turn that fetches BRK (0x00) ends the run in that turn; from the
\* fetch on nothing is pushed, A, X, Y, SP, the status and the memory stay as
\* they were, PC is not taken from the vector at 0xFFFE but stops one past
\* the BRK byte, and no cycles are reported to the bus.
C34_BrkReturns ==
    [][IsBrk =>
          /\ halted'
          /\ cpu' = [AtFetch.cpu EXCEPT !.pc = @ + 1]
          /\ MemAt(bus, cpu'.pc - 1) = 0
          /\ bus' = AtFetch.bus
          /\ ppu' = AtFetch.ppu
          /\ (ppu.nmi_interrupt = None) =>
                /\ cpu' = [cpu EXCEPT !.pc = @ + 1]
                /\ bus' = bus
                /\ ppu' = ppu
                /\ hist'.elapsed = hist.elapsed
      ]_vars

C34_Witness ==
    /\ IsStep(last) /\ last.args[2] = 0 /\ last.args[1] = 0
    /\ halted
    /\ fatal = ""
    /\ cpu.x = 2
    /\ cpu.sp = 250
    /\ hist.elapsed > 0

\* the turn from the same state with the empty callback
Untraced == run_turn(M(TRUE))

\* C35: a turn run with trace as the callback leaves the CPU registers, the
\* RAM and the PPU's status bits, latches, VRAM address and read buffer as
\* the same turn run with the empty callback leaves them, also when the
\* operand of the instruction is the PPU register 0x2002 or 0x2007.
C35_TraceTransparent ==
    [][(IsStep(last') /\ Untraced.fatal = "") =>
          /\ fatal' = ""
          /\ cpu' = Untraced.cpu
          /\ bus'.cpu_vram = Untraced.bus.cpu_vram
          /\ ppu'.stat = Untraced.ppu.stat
          /\ ppu'.addr = Untraced.ppu.addr
          /\ ppu'.scroll.latch = Untraced.ppu.scroll.latch
          /\ ppu'.internal_buf = Untraced.ppu.internal_buf
      ]_vars

\* the stack pointer moved by d, and the turn of an opcode that ran
SpBy(d) == (cpu.sp + d) % 256
Ran(op) == IsStep(last') /\ last'.args[2] = op /\ fatal' = ""

\* C36: for every stack pointer, 0x00 and 0x01 included, a push writes the
\* cell 0x0100 + SP and no other, and then SP is SP - 1 modulo 256; a pop
\* makes SP SP + 1 modulo 256 and reads the cell 0x0100 + SP; a 16-bit push
\* is the push of the high byte and then of the low byte, and a 16-bit pop
\* the pop of the low byte and then of the high byte; so every access is in
\* 0x0100-0x01FF, and a PLA after a PHA gives A the value pushed, an RTS after
\* a JSR resumes after the JSR, and both leave SP as it was before the push.
C36_Stack ==
    [][/\ Ran(72) =>
             /\ bus'.cpu_vram = ArrSet(bus.cpu_vram, STACK_BASE + cpu.sp, cpu.a)
             /\ cpu'.sp = SpBy(255)
       /\ Ran(104) =>
             /\ cpu'.a = StackCell(bus, SpBy(1))
             /\ cpu'.sp = SpBy(1)
             /\ bus'.cpu_vram = bus.cpu_vram
             /\ cpu.pc = 32776 =>
                   (cpu'.a = MemAt(bus, 32772) /\ cpu'.sp = MemAt(bus, 32769))
       /\ Ran(32) =>
             /\ bus'.cpu_vram =
                   ArrSet(ArrSet(bus.cpu_vram, STACK_BASE + cpu.sp,
                                 (cpu.pc + 2) \div 256),
                          STACK_BASE + SpBy(255), (cpu.pc + 2) % 256)
             /\ cpu'.sp = SpBy(254)
       /\ Ran(96) =>
             /\ cpu'.pc = StackCell(bus, SpBy(1)) + 256 * StackCell(bus, SpBy(2)) + 1
             /\ cpu'.sp = SpBy(2)
             /\ bus'.cpu_vram = bus.cpu_vram
             /\ cpu.pc = 32775 =>
                   (cpu'.pc = 32774 /\ cpu'.sp = MemAt(bus, 32769))
      ]_vars

C36_Witness ==
    /\ IsStep(last) /\ last.args[2] = 104
    /\ fatal = ""
    /\ MemAt(bus, 32769) = 0
    /\ cpu.sp = 0
    /\ cpu.a = 129
    /\ StackCell(bus, 0) = 129

\* the immediate operand of the instruction at PC
Immediate == MemAt(bus, cpu.pc + 1)

\* C37: for every a and immediate operand m, ALR (0x4B) runs and leaves
\* A = (a & m) >> 1, Carry = bit 0 of a & m, Zero and Negative those of the
\* new A, whatever the carry was before.
C37_Alr ==
    [][(IsStep(last') /\ last'.args[2] = 75) =>
          /\ fatal' = ""
          /\ cpu'.a = BitAnd(cpu.a, Immediate) \div 2
          /\ Bit(cpu'.stat, 0) = (BitAnd(cpu.a, Immediate) % 2 = 1)
          /\ Bit(cpu'.stat, 1) = (cpu'.a = 0)
          /\ ~Bit(cpu'.stat, 7)
      ]_vars

\* a read or a write of the data port with the VRAM address in a nametable
NametableAccess ==
    /\ IsWrite(last', 8199) \/ IsRead(last', 8199)
    /\ addr_get(ppu.addr) \in 8192..12287

\* C38: for every mirroring, FourScreen included, and every VRAM address in
\* 0x2000-0x2FFF, the index a read or a write of the data port computes for
\* the nametable memory is below 2048, and the access stays inside the 2 KiB
\* array.
C38_VramIndexInBounds ==
    [][NametableAccess =>
          /\ mirror_vram_addr(ppu.mirroring, addr_get(ppu.addr)) < 2048
          /\ fatal' = ""
      ]_vars

\* the registers of a second CPU, newly made on the same bus, after its reset
FreshReset == reset([M(TRUE) EXCEPT !.cpu = cpu_new, !.halted = FALSE]).cpu

\* C39: after Cpu::reset the registers A, X, Y, SP, status and PC are those
\* that any other CPU with the same memory has after its reset, whatever the
\* registers of the two were before: they depend on the memory alone.
C39_ResetOfMemoryAlone ==
    [][last'.op = "reset" => cpu' = FreshReset]_vars

\* a turn that serviced an NMI and whose handler began with an RTI, from a
\* status with B clear and B2 set
NmiThenRti ==
    /\ IsStep(last') /\ last'.args[1] = 1 /\ last'.args[2] = 64
    /\ ~Bit(cpu.stat, 4) /\ Bit(cpu.stat, 5)

\* C40: from a status with B clear and B2 set, the service of an NMI and the
\* RTI that follows it with nothing between them bring PC, SP and the whole
\* status byte, Interrupt-Disable included, back to what they were before the
\* NMI; between the two the handler has SP three below and Interrupt-Disable
\* set.
C40_NmiRti ==
    [][NmiThenRti =>
          /\ fatal' = ""
          /\ last'.args[4][1].pc = Word(bus, 65530)
          /\ last'.args[4][1].sp = Wrap8(cpu.sp - 3)
          /\ Bit(last'.args[4][1].stat, 2)
          /\ cpu'.pc = cpu.pc
          /\ cpu'.sp = cpu.sp
          /\ cpu'.stat = cpu.stat
      ]_vars

C40_Witness ==
    /\ IsStep(last) /\ last.args[1] = 1 /\ last.args[2] = 64
    /\ fatal = ""
    /\ last.args[4][1].sp = 254
    /\ Bit(last.args[4][1].stat, 2)
    /\ cpu.sp = 1
    /\ cpu.pc = 32786
    /\ cpu.stat = 233
====
